---------------------------- MODULE Spec2Model ----------------------------
(***************************************************************************)
(* A model of gotmplfmt: tokenizer -> recursive-descent parser -> tree ->  *)
(* printer, and of the round trip that FuzzParseString drives through it.  *)
(*                                                                         *)
(* Text is a sequence of one-character strings.  Positions are byte        *)
(* offsets counted from 0 as in the Go source, so text[:p] is              *)
(* SubSeq(text, 1, p) and the byte at offset p is text[p + 1].             *)
(***************************************************************************)
EXTENDS Integers, Sequences, FiniteSets, TLC

(***************************************************************************)
(* Strings helpers (package strings).                                      *)
(***************************************************************************)
\* strings.Count(s, c) for a one-byte c.
Count(s, c) == Cardinality({i \in 1..Len(s) : s[i] = c})

\* s[i:] has prefix p (i counted from 0).
HasPrefixAt(s, i, p) ==
    /\ i + Len(p) <= Len(s)
    /\ \A k \in 1..Len(p) : s[i + k] = p[k]

\* The byte at offset i, or "" past the end (the lexer's eof).
At(s, i) == IF i >= 0 /\ i < Len(s) THEN s[i + 1] ELSE ""

\* s[from:to]
Slice(s, from, to) == SubSeq(s, from + 1, to)

\* The least offset >= i at which p occurs in s, or -1 (strings.Index).
IndexFrom(s, i, p) ==
    LET hits == {j \in i..(Len(s) - Len(p)) : HasPrefixAt(s, j, p)}
    IN  IF hits = {} THEN -1 ELSE CHOOSE j \in hits : \A k \in hits : j <= k

\* strings.LastIndex(s, p): the greatest offset at which p occurs, or -1.
LastIndex(s, p) ==
    LET hits == {j \in 0..(Len(s) - Len(p)) : HasPrefixAt(s, j, p)}
    IN  IF hits = {} THEN -1 ELSE CHOOSE j \in hits : \A k \in hits : j >= k

(***************************************************************************)
(* Tokenizer.  lex.go is not among the repository's files at hand; it is   *)
(* modelled from the specification's section 4.1 on the text/template      *)
(* lexer of Go 1.20.4 that the readme names as its origin: delimiter       *)
(* tokens carry the trim flags, text is kept as written.                   *)
(***************************************************************************)
Digits == {"0", "1", "2", "3", "4", "5", "6", "7", "8", "9"}

Letters ==
    {"a", "b", "c", "d", "e", "f", "g", "h", "i", "j", "k", "l", "m",
     "n", "o", "p", "q", "r", "s", "t", "u", "v", "w", "x", "y", "z",
     "A", "B", "C", "D", "E", "F", "G", "H", "I", "J", "K", "L", "M",
     "N", "O", "P", "Q", "R", "S", "T", "U", "V", "W", "X", "Y", "Z", "_"}

isSpace(r) == r \in {" ", "\t", "\r", "\n"}

isAlphaNumeric(r) == r \in Letters \cup Digits

leftDelimText == <<"{", "{">>

rightDelimText == <<"}", "}">>

noTrim == [left |-> FALSE, right |-> FALSE]

\* The line (from 1) on which offset pos of txt lies.
lineAt(txt, pos) == 1 + Count(Slice(txt, 0, pos), "\n")

mkItem(typ, txt, start, end) ==
    [typ |-> typ, val |-> Slice(txt, start, end), pos |-> start,
     line |-> lineAt(txt, start), trim |-> noTrim]

\* The lexer's error token: it ends the token stream.
errorItem(txt, start, msg) ==
    [typ |-> "itemError", val |-> msg, pos |-> start,
     line |-> lineAt(txt, start), trim |-> noTrim]

eofItem(txt) ==
    [typ |-> "itemEOF", val |-> <<"E", "O", "F">>, pos |-> Len(txt),
     line |-> lineAt(txt, Len(txt)), trim |-> noTrim]

\* "- " after the left delimiter.
hasLeftTrimMarker(txt, i) == At(txt, i) = "-" /\ isSpace(At(txt, i + 1))

\* " -" before the right delimiter.
hasRightTrimMarker(txt, i) == isSpace(At(txt, i)) /\ At(txt, i + 1) = "-"

\* <<delim, trimSpaces>>: whether the right delimiter, possibly trim-marked,
\* is at offset i.
atRightDelim(txt, i) ==
    IF hasRightTrimMarker(txt, i) /\ HasPrefixAt(txt, i + 2, rightDelimText)
    THEN <<TRUE, TRUE>>
    ELSE IF HasPrefixAt(txt, i, rightDelimText) THEN <<TRUE, FALSE>>
    ELSE <<FALSE, FALSE>>

\* Whether the byte at i can follow an identifier, a field or a variable.
atTerminator(txt, i) ==
    \/ isSpace(At(txt, i))
    \/ At(txt, i) \in {"", ".", ",", "|", ":", ")", "("}
    \/ HasPrefixAt(txt, i, rightDelimText)

\* The first offset >= i whose byte is in set ("" stands for the end).
scanUntil(txt, i, set) ==
    CHOOSE j \in i..Len(txt) :
        At(txt, j) \in set /\ \A k \in i..(j - 1) : At(txt, k) \notin set

\* The first offset >= i whose byte is not in set (acceptRun).
scanWhile(txt, i, set) ==
    CHOOSE j \in i..Len(txt) :
        At(txt, j) \notin set /\ \A k \in i..(j - 1) : At(txt, k) \in set

SpaceChars == {" ", "\t", "\r", "\n"}

\* The keyword table: the token kind of a word.
wordType(w) ==
    CASE w = <<"i", "f">> -> "itemIf"
      [] w = <<"e", "l", "s", "e">> -> "itemElse"
      [] w = <<"e", "n", "d">> -> "itemEnd"
      [] w = <<"n", "i", "l">> -> "itemNil"
      [] w \in {<<"r", "a", "n", "g", "e">>, <<"w", "i", "t", "h">>,
                <<"d", "e", "f", "i", "n", "e">>,
                <<"b", "l", "o", "c", "k">>} -> "itemBranch"
      [] w \in {<<"t", "r", "u", "e">>, <<"f", "a", "l", "s", "e">>} -> "itemBool"
      [] OTHER -> "itemIdentifier"

\* The lexer: the offset reached, the paren depth, whether it is inside an
\* action, the tokens emitted, and whether it has stopped.
newLexer ==
    [pos |-> 0, parenDepth |-> 0, inAction |-> FALSE, items |-> << >>,
     done |-> FALSE]

\* The lexer after emitting it and moving to offset pos.
emit(l, it, pos) == [l EXCEPT !.items = Append(@, it), !.pos = pos]

\* The lexer stopped after emitting it (itemEOF or itemError).
stop(l, it) == [l EXCEPT !.items = Append(@, it), !.done = TRUE]

\* Text up to the next left delimiter, then the delimiter with its trim flag.
lexText(txt, l) ==
    LET pos == l.pos
        x == IndexFrom(txt, pos, leftDelimText)
    IN
    IF x < 0
    THEN stop(IF pos < Len(txt)
              THEN emit(l, mkItem("itemText", txt, pos, Len(txt)), Len(txt))
              ELSE l,
              eofItem(txt))
    ELSE LET trimSpace == hasLeftTrimMarker(txt, x + 2)
             afterMarker == IF trimSpace THEN 2 ELSE 0
             delim == [mkItem("itemLeftDelim", txt, x, x + 2)
                         EXCEPT !.trim = [left |-> trimSpace, right |-> FALSE]]
             l1 == IF x > pos THEN emit(l, mkItem("itemText", txt, pos, x), x)
                   ELSE l
         IN  [emit(l1, delim, x + 2 + afterMarker)
                EXCEPT !.inAction = TRUE, !.parenDepth = 0]

\* One token inside an action.
lexInsideAction(txt, l) ==
    LET pos == l.pos
        r == At(txt, pos)
        rd == atRightDelim(txt, pos)
        one(typ, n) == emit(l, mkItem(typ, txt, pos, pos + n), pos + n)
        lexError(msg) == stop(l, errorItem(txt, pos, msg))
    IN
    IF rd[1]
    THEN IF l.parenDepth = 0
         THEN \* lexRightDelim
              LET at == IF rd[2] THEN pos + 2 ELSE pos
                  delim == [mkItem("itemRightDelim", txt, at, at + 2)
                              EXCEPT !.trim = [left |-> FALSE, right |-> rd[2]]]
              IN  [emit(l, delim, at + 2) EXCEPT !.inAction = FALSE]
         ELSE lexError("unclosed left paren")
    ELSE IF r = "" THEN lexError("unclosed action")
    ELSE IF isSpace(r)
    THEN \* lexSpace: a run of spaces, but not the one of " -}}"
         LET spaces == scanWhile(txt, pos, SpaceChars)
             trimAhead == /\ hasRightTrimMarker(txt, spaces - 1)
                          /\ HasPrefixAt(txt, spaces + 1, rightDelimText)
             end == IF trimAhead THEN spaces - 1 ELSE spaces
         IN  one("itemSpace", end - pos)
    ELSE IF r = "=" THEN one("itemAssign", 1)
    ELSE IF r = ":"
    THEN IF At(txt, pos + 1) = "=" THEN one("itemDeclare", 2)
         ELSE lexError("expected :=")
    ELSE IF r = "|" THEN one("itemPipe", 1)
    ELSE IF r = "\""
    THEN \* lexQuote
         LET close == scanUntil(txt, pos + 1, {"\"", "\n", ""})
         IN  IF At(txt, close) = "\"" THEN one("itemString", close + 1 - pos)
             ELSE lexError("unterminated quoted string")
    ELSE IF r = "$" \/ (r = "." /\ At(txt, pos + 1) \notin Digits \cup {""})
    THEN \* lexVariable, lexField: lexFieldOrVariable
         IF atTerminator(txt, pos + 1)
         THEN one(IF r = "$" THEN "itemVariable" ELSE "itemDot", 1)
         ELSE LET end == scanWhile(txt, pos + 1, Letters \cup Digits)
              IN  IF ~atTerminator(txt, end) THEN lexError("bad character")
                  ELSE one(IF r = "$" THEN "itemVariable" ELSE "itemField", end - pos)
    ELSE IF r \in Digits \cup {"+", "-", "."}
    THEN \* lexNumber
         LET signed == IF r \in {"+", "-"} THEN pos + 1 ELSE pos
             int == scanWhile(txt, signed, Digits)
             end == IF At(txt, int) = "." THEN scanWhile(txt, int + 1, Digits) ELSE int
         IN  IF isAlphaNumeric(At(txt, end)) THEN lexError("bad number syntax")
             ELSE one("itemNumber", end - pos)
    ELSE IF isAlphaNumeric(r)
    THEN \* lexIdentifier
         LET end == scanWhile(txt, pos, Letters \cup Digits)
         IN  IF ~atTerminator(txt, end) THEN lexError("bad character")
             ELSE one(wordType(Slice(txt, pos, end)), end - pos)
    ELSE IF r = "("
    THEN [one("itemLeftParen", 1) EXCEPT !.parenDepth = @ + 1]
    ELSE IF r = ")"
    THEN IF l.parenDepth = 0 THEN lexError("unexpected right paren")
         ELSE [one("itemRightParen", 1) EXCEPT !.parenDepth = @ - 1]
    ELSE one("itemChar", 1)

RECURSIVE run(_, _)
\* The lexer's loop: state functions until one stops it.
run(txt, l) ==
    IF l.done THEN l
    ELSE run(txt, IF l.inAction THEN lexInsideAction(txt, l) ELSE lexText(txt, l))

\* The whole token stream of txt, ending with itemEOF or itemError.
lex(txt) == run(txt, newLexer).items

(***************************************************************************)
(* Trim flags of a delimiter pair and their delimiter texts (declared in   *)
(* lex.go, used by node.go): modelled from the specification's 4.3.        *)
(***************************************************************************)
leftDelim(trim) ==
    IF trim.left THEN <<"{", "{", "-", " ">> ELSE <<"{", "{", " ">>

rightDelim(trim) ==
    IF trim.right THEN <<" ", "-", "}", "}">> ELSE <<" ", "}", "}">>

rightDelimNoSpace(trim) ==
    IF trim.right THEN <<"-", "}", "}">> ELSE <<"}", "}">>

\* The number of leading space bytes of s.
leftTrimLength(s) == scanWhile(s, 0, SpaceChars)

(***************************************************************************)
(* Nodes (node.go).  A node is a record with its NodeType in "type" and    *)
(* its Pos in "pos"; NilNode stands for a nil pointer.                     *)
(***************************************************************************)
NilNode == [type |-> "nil"]

isNil(n) == n.type = "nil"

newList(pos) == [type |-> "NodeList", pos |-> pos, Nodes |-> << >>]

newText(pos, text) == [type |-> "NodeText", pos |-> pos, Text |-> text]

newPipeline(pos, line) ==
    [type |-> "NodePipe", pos |-> pos, Line |-> line, IsAssign |-> FALSE,
     Decl |-> << >>, Cmds |-> << >>]

newAction(pos, line, pipe, trim) ==
    [type |-> "NodeAction", pos |-> pos, Line |-> line, Pipe |-> pipe,
     Trim |-> trim]

newCommand(pos) == [type |-> "NodeCommand", pos |-> pos, Args |-> << >>]

NewIdentifier(pos, ident) ==
    [type |-> "NodeIdentifier", pos |-> pos, Ident |-> ident]

RECURSIVE Split(_, _)
\* strings.Split(s, sep) for a one-byte sep.
Split(s, sep) ==
    LET i == IndexFrom(s, 0, <<sep>>) IN
    IF i < 0 THEN <<s>>
    ELSE <<Slice(s, 0, i)>> \o Split(Slice(s, i + 1, Len(s)), sep)

newVariable(pos, ident) ==
    [type |-> "NodeVariable", pos |-> pos, Ident |-> Split(ident, ".")]

newDot(pos) == [type |-> "NodeDot", pos |-> pos]

newNil(pos) == [type |-> "NodeNil", pos |-> pos]

\* ident[1:] drops the leading period.
newField(pos, ident) ==
    [type |-> "NodeField", pos |-> pos,
     Ident |-> Split(Slice(ident, 1, Len(ident)), ".")]

newChain(pos, node) ==
    [type |-> "NodeChain", pos |-> pos, Node |-> node, Field |-> << >>]

\* ChainNode.Add: the field without its leading period.
Add(chain, field) ==
    [chain EXCEPT !.Field = Append(@, Slice(field, 1, Len(field)))]

newBool(pos, true) == [type |-> "NodeBool", pos |-> pos, True |-> true]

\* newNumber keeps the text; it fails on a text without a digit.
newNumber(pos, text) == [type |-> "NodeNumber", pos |-> pos, Text |-> text]

numberSyntaxOK(text) == \E i \in 1..Len(text) : text[i] \in Digits

newString(pos, orig) == [type |-> "NodeString", pos |-> pos, Quoted |-> orig]

newEnd(pos, trim) == [type |-> "nodeEnd", pos |-> pos, Trim |-> trim]

newElse(pos, line, pipe, trim) ==
    [type |-> "nodeElse", pos |-> pos, Pipe |-> pipe, List |-> NilNode,
     Line |-> line, Trim |-> trim]

newBranch(keyword, pipe, trim) ==
    [type |-> "NodeBranch", Keyword |-> keyword, pos |-> pipe.pos,
     Line |-> pipe.Line, Pipe |-> pipe, List |-> NilNode, Elses |-> << >>,
     End |-> NilNode, Trim |-> trim]

(***************************************************************************)
(* Printer (node.go).  sb is the printer: the text built so far, the       *)
(* prefix and the depth.  txt is the text of the tree the node belongs to. *)
(***************************************************************************)
newPrinter == [out |-> << >>, prefix |-> << >>, depth |-> 0]

WriteString(sb, s) == [sb EXCEPT !.out = @ \o s]

WriteByte(sb, c) == [sb EXCEPT !.out = Append(@, c)]

Repeat(c, n) == [i \in 1..n |-> c]

WritePrefix(sb) ==
    WriteString(WriteString(sb, sb.prefix), Repeat("\t", sb.depth))

\* The number of newlines before the node.
lineno(txt, n) == Count(Slice(txt, 0, n.pos), "\n")

\* <<prefix, ok>>: the whitespace from the beginning of n's line to ltok.
whitespacePrefix(txt, n, ltok) ==
    LET pos == n.pos
        nl == LastIndex(Slice(txt, 0, pos), <<"\n">>)
        start == IF nl < 0 THEN 0 ELSE nl
        line == Slice(txt, start + 1, pos)
        tokIdx == LastIndex(line, ltok)
        head == Slice(line, 0, tokIdx)
    IN  IF tokIdx < 0 THEN << << >>, FALSE >>
        ELSE IF leftTrimLength(head) # Len(head) THEN << << >>, FALSE >>
        ELSE <<head, TRUE>>

RECURSIVE writeTo(_, _, _)
RECURSIVE writeArg(_, _, _)
RECURSIVE writeNodes(_, _, _)
RECURSIVE writeIdents(_, _, _)
RECURSIVE writeDecl(_, _, _, _)
RECURSIVE writeCmds(_, _, _)
RECURSIVE writeArgs(_, _, _)

\* The state of a loop of the printer over a slice: the printer, the index
\* of the next element and the line of the previous one.
range(sb, i, prevLine) == [sb |-> sb, i |-> i, prevLine |-> prevLine]

\* for _, n := range nodes { n.writeTo(sb) }
writeNodes(nodes, st, txt) ==
    IF st.i > Len(nodes) THEN st.sb
    ELSE writeNodes(nodes, range(writeTo(nodes[st.i], st.sb, txt), st.i + 1, 0), txt)

ListNode_writeTo(l, sb, txt) ==
    IF isNil(l) THEN sb ELSE writeNodes(l.Nodes, range(sb, 1, 0), txt)

\* TextNode.writeTo as it would be if text were laid out like a
\* continuation line, after the prefix.
TextNode_writeToPrefixed(t, sb, txt) == WriteString(WritePrefix(sb), t.Text)

TextNode_writeTo(t, sb, txt) == WriteString(sb, t.Text)

\* The identifiers of a variable (dotFirst false) or a field (dotFirst true).
writeIdents(ids, sb, dotFirst) ==
    IF ids = << >> THEN sb
    ELSE writeIdents(Tail(ids),
                     WriteString(IF dotFirst THEN WriteByte(sb, ".") ELSE sb,
                                 Head(ids)),
                     TRUE)

VariableNode_writeTo(v, sb, txt) == writeIdents(v.Ident, sb, FALSE)

FieldNode_writeTo(f, sb, txt) == writeIdents(f.Ident, sb, TRUE)

\* The declared variables from the i-th on, joined by ", ".
writeDecl(decl, i, sb, txt) ==
    IF i > Len(decl) THEN sb
    ELSE writeDecl(decl, i + 1,
                   VariableNode_writeTo(decl[i],
                       IF i > 1 THEN WriteString(sb, <<",", " ">>) ELSE sb, txt),
                   txt)

\* The commands from the st.i-th on, joined by " | ".
\* writeCmds with the commands joined by a bare pipe.
writeCmdsTight(cmds, st, txt) ==
    IF st.i > Len(cmds) THEN st.sb
    ELSE writeCmds(cmds,
                   range(writeTo(cmds[st.i],
                                 IF st.i > 1
                                 THEN WriteString(st.sb, <<"|">>)
                                 ELSE st.sb, txt),
                         st.i + 1, 0),
                   txt)

writeCmds(cmds, st, txt) ==
    IF st.i > Len(cmds) THEN st.sb
    ELSE writeCmds(cmds,
                   range(writeTo(cmds[st.i],
                                 IF st.i > 1
                                 THEN WriteString(st.sb, <<" ", "|", " ">>)
                                 ELSE st.sb, txt),
                         st.i + 1, 0),
                   txt)

PipeNode_writeTo(p, sb, txt) ==
    LET sb1 == IF Len(p.Decl) > 0
               THEN WriteString(writeDecl(p.Decl, 1, sb, txt),
                                IF p.IsAssign THEN <<" ", "=", " ">>
                                ELSE <<" ", ":", "=", " ">>)
               ELSE sb
    IN  writeCmds(p.Cmds, range(sb1, 1, 0), txt)

\* ActionNode.writeTo that closes every action with the delimiter of the
\* several-line case, which has no space in front of it.
ActionNode_writeToNoSpace(a, sb, txt) ==
    LET w == whitespacePrefix(txt, a, leftDelimText)
        ok == w[2]
        sb1 == WriteString([sb EXCEPT !.prefix = w[1]], leftDelim(a.Trim))
        before == Count(sb1.out, "\n")
        sb2 == PipeNode_writeTo(a.Pipe, [sb1 EXCEPT !.depth = 1], txt)
        sb3 == [sb2 EXCEPT !.depth = 0]
        after == Count(sb3.out, "\n")
    IN  IF ok /\ before # after
        THEN WriteString(WritePrefix(WriteString(sb3, <<"\n">>)),
                         rightDelimNoSpace(a.Trim))
        ELSE WriteString(sb3, rightDelimNoSpace(a.Trim))

ActionNode_writeTo(a, sb, txt) ==
    LET w == whitespacePrefix(txt, a, leftDelimText)
        ok == w[2]
        sb1 == WriteString([sb EXCEPT !.prefix = w[1]], leftDelim(a.Trim))
        before == Count(sb1.out, "\n")
        sb2 == PipeNode_writeTo(a.Pipe, [sb1 EXCEPT !.depth = 1], txt)
        sb3 == [sb2 EXCEPT !.depth = 0]
        after == Count(sb3.out, "\n")
    IN  IF ok /\ before # after
        THEN WriteString(WritePrefix(WriteString(sb3, <<"\n">>)),
                         rightDelimNoSpace(a.Trim))
        ELSE WriteString(sb3, rightDelim(a.Trim))

\* One argument of a command: the st.i-th, after the separator that its
\* line and the previous argument's call for.
writeArg(args, st, txt) ==
    LET i == st.i
        sb == st.sb
        arg == args[i]
        line == lineno(txt, arg)
        sb1 == IF i > 1
               THEN IF line > st.prevLine
                    THEN WritePrefix(WriteString(sb, <<"\n">>))
                    ELSE WriteByte(sb, " ")
               ELSE sb
    IN  IF arg.type = "NodePipe"
        THEN LET sb2 == WriteByte(sb1, "(")
                 before == Count(sb2.out, "\n")
                 sb3 == PipeNode_writeTo(arg, [sb2 EXCEPT !.depth = @ + 1], txt)
                 sb4 == [sb3 EXCEPT !.depth = @ - 1]
                 after == Count(sb4.out, "\n")
                 sb5 == IF before # after
                        THEN WritePrefix(WriteString(sb4, <<"\n">>))
                        ELSE sb4
             IN  range(WriteByte(sb5, ")"), i + 1, line)
        ELSE range(writeTo(arg, sb1, txt), i + 1, line)

\* for i, arg := range c.Args
writeArgs(args, st, txt) ==
    IF st.i > Len(args) THEN st.sb
    ELSE writeArgs(args, writeArg(args, st, txt), txt)

CommandNode_writeTo(c, sb, txt) ==
    IF Len(c.Args) = 0 THEN sb ELSE writeArgs(c.Args, range(sb, 1, 0), txt)

IdentifierNode_writeTo(i, sb, txt) == WriteString(sb, i.Ident)

DotNode_writeTo(d, sb, txt) == WriteString(sb, <<".">>)

NilNode_writeTo(n, sb, txt) == WriteString(sb, <<"n", "i", "l">>)

ChainNode_writeTo(c, sb, txt) ==
    LET sb1 == IF c.Node.type = "NodePipe"
               THEN WriteByte(writeTo(c.Node, WriteByte(sb, "("), txt), ")")
               ELSE writeTo(c.Node, sb, txt)
    IN  writeIdents(c.Field, sb1, TRUE)

BoolNode_writeTo(b, sb, txt) ==
    WriteString(sb, IF b.True THEN <<"t", "r", "u", "e">>
                    ELSE <<"f", "a", "l", "s", "e">>)

NumberNode_writeTo(n, sb, txt) == WriteString(sb, n.Text)

StringNode_writeTo(s, sb, txt) == WriteString(sb, s.Quoted)

EndNode_writeTo(e, sb, txt) ==
    WriteString(WriteString(WriteString(sb, leftDelim(e.Trim)),
                            <<"e", "n", "d">>),
                rightDelim(e.Trim))

\* ElseNode.writeTo with the guard of an else if in an action of its own.
ElseNode_writeToDesugared(e, sb, txt) ==
    LET sb1 == WriteString(WriteString(sb, leftDelim(e.Trim)),
                           <<"e", "l", "s", "e">>)
        sb2 == IF ~isNil(e.Pipe)
               THEN PipeNode_writeTo(e.Pipe,
                                     WriteString(sb1, <<" ", "}", "}", "{", "{", " ", "i", "f", " ">>), txt)
               ELSE sb1
    IN  ListNode_writeTo(e.List, WriteString(sb2, rightDelim(e.Trim)), txt)

ElseNode_writeTo(e, sb, txt) ==
    LET sb1 == WriteString(WriteString(sb, leftDelim(e.Trim)),
                           <<"e", "l", "s", "e">>)
        sb2 == IF ~isNil(e.Pipe)
               THEN PipeNode_writeTo(e.Pipe,
                                     WriteString(sb1, <<" ", "i", "f", " ">>), txt)
               ELSE sb1
    IN  ListNode_writeTo(e.List, WriteString(sb2, rightDelim(e.Trim)), txt)

BranchNode_writeTo(b, sb, txt) ==
    LET sb1 == WriteByte(WriteString(WriteString(sb, leftDelim(b.Trim)),
                                     b.Keyword), " ")
        sb2 == WriteString(PipeNode_writeTo(b.Pipe, sb1, txt), rightDelim(b.Trim))
        sb3 == ListNode_writeTo(b.List, sb2, txt)
        sb4 == writeNodes(b.Elses, range(sb3, 1, 0), txt)
    IN  EndNode_writeTo(b.End, sb4, txt)

\* The node's own writeTo method (dynamic dispatch on the node's type).
writeTo(n, sb, txt) ==
    CASE n.type = "NodeList" -> ListNode_writeTo(n, sb, txt)
      [] n.type = "NodeText" -> TextNode_writeTo(n, sb, txt)
      [] n.type = "NodePipe" -> PipeNode_writeTo(n, sb, txt)
      [] n.type = "NodeAction" -> ActionNode_writeTo(n, sb, txt)
      [] n.type = "NodeCommand" -> CommandNode_writeTo(n, sb, txt)
      [] n.type = "NodeIdentifier" -> IdentifierNode_writeTo(n, sb, txt)
      [] n.type = "NodeVariable" -> VariableNode_writeTo(n, sb, txt)
      [] n.type = "NodeDot" -> DotNode_writeTo(n, sb, txt)
      [] n.type = "NodeNil" -> NilNode_writeTo(n, sb, txt)
      [] n.type = "NodeField" -> FieldNode_writeTo(n, sb, txt)
      [] n.type = "NodeChain" -> ChainNode_writeTo(n, sb, txt)
      [] n.type = "NodeBool" -> BoolNode_writeTo(n, sb, txt)
      [] n.type = "NodeNumber" -> NumberNode_writeTo(n, sb, txt)
      [] n.type = "NodeString" -> StringNode_writeTo(n, sb, txt)
      [] n.type = "nodeEnd" -> EndNode_writeTo(n, sb, txt)
      [] n.type = "nodeElse" -> ElseNode_writeTo(n, sb, txt)
      [] n.type = "NodeBranch" -> BranchNode_writeTo(n, sb, txt)

\* Node.String(): the node written by a printer of its own.
String(n, txt) == writeTo(n, newPrinter, txt).out

(***************************************************************************)
(* Parser (parse.go).  t is the Tree: Root, text, the lexer (the token     *)
(* stream items and the index lexPos of the next one to deliver), the      *)
(* three-token lookahead token[0..2], peekCount, actionLine.  A panic      *)
(* raised by errorf is the field err: once it is set every caller returns  *)
(* at once, up to Tree.Parse, which recovers it.                           *)
(***************************************************************************)
NoErr == [msg |-> "", arg |-> "", line |-> 0, stage |-> 0]

\* The zero item: itemError is the zero itemType.
zeroItem ==
    [typ |-> "itemError", val |-> "", pos |-> 0, line |-> 0, trim |-> noTrim]

\* new(Tree).  peekHigh is no field of the program: it records the highest
\* value peekCount has held since the tree was made.
newTree ==
    [Root |-> NilNode, text |-> << >>, items |-> << >>, lexPos |-> 1,
     token |-> [i \in 0..2 |-> zeroItem], peekCount |-> 0, actionLine |-> 0,
     err |-> NoErr, peekHigh |-> 0]

failed(t) == t.err # NoErr

\* A result: the tree after the call, the value returned, and whether the
\* call panicked.
R(t, v) == [t |-> t, v |-> v, panic |-> t.err # NoErr]

\* F of the value v: the value of a call under a local name, as := does.
Bind(v, F(_)) == F(v)

\* t.lex.nextItem(): the item the lexer delivers next; the stream stays at
\* its last item once it is used up.
nextItem(t) ==
    IF t.lexPos <= Len(t.items) THEN t.items[t.lexPos] ELSE eofItem(t.text)

\* next: [t, v], the parser after the call and the token returned.
next(t) ==
    IF t.peekCount > 0
    THEN [t |-> [t EXCEPT !.peekCount = @ - 1], v |-> t.token[t.peekCount - 1]]
    ELSE [t |-> [t EXCEPT !.lexPos = @ + 1, !.token[0] = nextItem(t)],
          v |-> nextItem(t)]

high(h, n) == IF n > h THEN n ELSE h

backup(t) ==
    [t EXCEPT !.peekCount = @ + 1, !.peekHigh = high(@, t.peekCount + 1)]

backup2(t, t1) ==
    [t EXCEPT !.token[1] = t1, !.peekCount = 2, !.peekHigh = high(@, 2)]

\* backup3 that pushes the two tokens back in the order of its parameters.
backup3Swapped(t, t2, t1) ==
    [t EXCEPT !.token[1] = t2, !.token[2] = t1, !.peekCount = 3,
              !.peekHigh = high(@, 3)]

backup3(t, t2, t1) ==
    [t EXCEPT !.token[1] = t1, !.token[2] = t2, !.peekCount = 3,
              !.peekHigh = high(@, 3)]

peek(t) ==
    IF t.peekCount > 0 THEN [t |-> t, v |-> t.token[t.peekCount - 1]]
    ELSE [t |-> [t EXCEPT !.lexPos = @ + 1, !.peekCount = 1,
                          !.token[0] = nextItem(t), !.peekHigh = high(@, 1)],
          v |-> nextItem(t)]

RECURSIVE nextNonSpace(_)
nextNonSpace(t) ==
    IF next(t).v.typ # "itemSpace" THEN next(t) ELSE nextNonSpace(next(t).t)

peekNonSpace(t) == [nextNonSpace(t) EXCEPT !.t = backup(@)]

\* The number of tokens taken from the lexer and not pushed back.
consumed(t) == t.lexPos - t.peekCount

\* errorf that panics without dropping the tree built so far.
errorfKeepRoot(t, format, arg) ==
    [t EXCEPT !.err = [msg |-> format, arg |-> arg, line |-> t.token[0].line,
                       stage |-> 0]]

\* errorf that reports the line on which the current action began.
errorfActionLine(t, format, arg) ==
    [t EXCEPT !.Root = NilNode,
              !.err = [msg |-> format, arg |-> arg, line |-> t.actionLine,
                       stage |-> 0]]

\* errorf drops the tree and panics with the line of token[0].
errorf(t, format, arg) ==
    [t EXCEPT !.Root = NilNode,
              !.err = [msg |-> format, arg |-> arg, line |-> t.token[0].line,
                       stage |-> 0]]

\* A loop that turns without ending and without taking a token never ends;
\* it is cut short as a panic of its own.
NoProgress == "loop without progress"

stall(t) == errorf(t, NoProgress, "")

\* The numbers errorf prints before the message ("template: %d: %s").
position(err) == <<err.line>>

\* The byte offset of pos in its line, as ErrorContext counts it.
byteNum(txt, pos) ==
    IF LastIndex(Slice(txt, 0, pos), <<"\n">>) = -1 THEN pos
    ELSE pos - (LastIndex(Slice(txt, 0, pos), <<"\n">>) + 1)

\* A lexer error is reported with its own message, any other token as
\* unexpected in the context.
unexpected(t, token, context) ==
    IF token.typ = "itemError"
    THEN errorf(t, token.val,
                IF t.actionLine # 0 /\ t.actionLine # token.line
                THEN "in action started at" ELSE "")
    ELSE errorf(t, "unexpected %s in %s", context)

expect(t, expected, context) ==
    LET check(token) ==
            IF token.v.typ # expected
            THEN R(unexpected(token.t, token.v, context), token.v)
            ELSE R(token.t, token.v)
    IN  check(nextNonSpace(t))

\* The name of a block keyword, as pipeline's context.
keywordName(val) ==
    CASE val = <<"i", "f">> -> "if"
      [] val = <<"r", "a", "n", "g", "e">> -> "range"
      [] val = <<"w", "i", "t", "h">> -> "with"
      [] val = <<"d", "e", "f", "i", "n", "e">> -> "define"
      [] val = <<"b", "l", "o", "c", "k">> -> "block"

\* The token kinds that start an operand.
OperandStart ==
    {"itemBool", "itemCharConstant", "itemComplex", "itemDot", "itemField",
     "itemIdentifier", "itemNumber", "itemNil", "itemRawString", "itemString",
     "itemVariable", "itemLeftParen"}

\* The node types that cannot take piped input or a field.
NonExecutable == {"NodeBool", "NodeDot", "NodeNil", "NodeNumber", "NodeString"}

RECURSIVE firstNonExecutable(_, _)
\* The least index >= i of a command starting with a literal, or 0.
firstNonExecutable(cmds, i) ==
    IF i > Len(cmds) THEN 0
    ELSE IF cmds[i].Args[1].type \in NonExecutable THEN i
    ELSE firstNonExecutable(cmds, i + 1)

\* checkPipeline that looks at every command, the first included.
checkPipelineFromFirst(t, pipe, context) ==
    LET stage(i) ==
            IF i # 0
            THEN [errorf(t, "non executable command in pipeline stage %d", "")
                    EXCEPT !.err.stage = i]
            ELSE t
    IN  IF Len(pipe.Cmds) = 0 THEN errorf(t, "missing value for %s", context)
        ELSE stage(firstNonExecutable(pipe.Cmds, 1))

\* checkPipeline that accepts a pipeline with no commands.
checkPipelineAllowEmpty(t, pipe, context) ==
    LET stage(i) ==
            IF i # 0
            THEN [errorf(t, "non executable command in pipeline stage %d", "")
                    EXCEPT !.err.stage = i]
            ELSE t
    IN  stage(firstNonExecutable(pipe.Cmds, 2))

checkPipeline(t, pipe, context) ==
    LET stage(i) ==
            IF i # 0
            THEN [errorf(t, "non executable command in pipeline stage %d", "")
                    EXCEPT !.err.stage = i]
            ELSE t
    IN  IF Len(pipe.Cmds) = 0 THEN errorf(t, "missing value for %s", context)
        ELSE stage(firstNonExecutable(pipe.Cmds, 2))

RECURSIVE textOrAction(_)
RECURSIVE itemListLoop(_, _)
RECURSIVE itemListStep(_)
RECURSIVE pipelineStep(_, _, _)
RECURSIVE commandStep(_)
RECURSIVE action(_, _)
RECURSIVE pipeline(_, _, _)
RECURSIVE decls(_, _, _, _)
RECURSIVE pipelineLoop(_, _, _, _)
RECURSIVE branchControl(_, _, _)
RECURSIVE Elses(_, _, _)
RECURSIVE command(_)
RECURSIVE commandLoop(_, _)
RECURSIVE operand(_)
RECURSIVE chainLoop(_, _)
RECURSIVE term(_)

\* A turn of the loop of itemList that takes the end of the input for the
\* end of the list.
itemListStepToEOF(st) ==
    Bind(peekNonSpace(st.t), LAMBDA p :
        IF p.v.typ = "itemEOF" THEN [st EXCEPT !.t = p.t, !.done = TRUE]
        ELSE Bind(textOrAction(p.t), LAMBDA n :
            IF n.panic THEN [st EXCEPT !.t = n.t, !.done = TRUE, !.panic = TRUE]
            ELSE IF n.v.type \in {"nodeEnd", "nodeElse"}
            THEN [st EXCEPT !.t = n.t, !.next = n.v, !.done = TRUE]
            ELSE [st EXCEPT !.t = n.t, !.list.Nodes = Append(@, n.v)]))

\* One turn of the loop of itemList: [t, list, next, done, panic].
itemListStep(st) ==
    Bind(peekNonSpace(st.t), LAMBDA p :
        IF p.v.typ = "itemEOF"
        THEN [st EXCEPT !.t = errorf(p.t, "unexpected EOF", ""), !.done = TRUE,
                        !.panic = TRUE]
        ELSE Bind(textOrAction(p.t), LAMBDA n :
            IF n.panic THEN [st EXCEPT !.t = n.t, !.done = TRUE, !.panic = TRUE]
            ELSE IF n.v.type \in {"nodeEnd", "nodeElse"}
            THEN [st EXCEPT !.t = n.t, !.next = n.v, !.done = TRUE]
            ELSE [st EXCEPT !.t = n.t, !.list.Nodes = Append(@, n.v)]))

\* The loop of itemList; from is the count of tokens consumed when the turn
\* before began.
itemListLoop(st, from) ==
    IF st.done THEN st
    ELSE IF consumed(st.t) <= from
    THEN [st EXCEPT !.t = stall(@), !.done = TRUE, !.panic = TRUE]
    ELSE itemListLoop(itemListStep(st), consumed(st.t))

\* itemList: [t, list, next, panic], next the end or else node that ended
\* the list.
itemList(t) ==
    Bind(peekNonSpace(t), LAMBDA p :
        itemListLoop([t |-> p.t, list |-> newList(p.v.pos), next |-> NilNode,
                      done |-> FALSE, panic |-> FALSE], consumed(p.t) - 1))

textOrAction(t) ==
    Bind(nextNonSpace(t), LAMBDA token :
        CASE token.v.typ = "itemText" ->
               R(token.t, newText(token.v.pos, token.v.val))
          [] token.v.typ = "itemLeftDelim" ->
               [action([token.t EXCEPT !.actionLine = token.v.line],
                       token.v.trim)
                   EXCEPT !.t.actionLine = 0]
          [] OTHER -> R(unexpected(token.t, token.v, "input"), NilNode))

\* endControl that keeps the flags of the left delimiter only: the right
\* trim flag of the closing delimiter is not captured.
endControlLeftOnly(t, trim) ==
    Bind(expect(t, "itemRightDelim", "end"), LAMBDA e :
        IF e.panic THEN R(e.t, NilNode) ELSE R(e.t, newEnd(e.v.pos, trim)))

endControl(t, trim) ==
    Bind(expect(t, "itemRightDelim", "end"), LAMBDA e :
        IF e.panic THEN R(e.t, NilNode)
        ELSE R(e.t, newEnd(e.v.pos, [trim EXCEPT !.right = e.v.trim.right])))

elseControl(t, trim) ==
    Bind(peekNonSpace(t), LAMBDA pk :
        IF pk.v.typ = "itemIf"
        THEN Bind(next(pk.t), LAMBDA token :
             Bind(pipeline(token.t, "else if", "itemRightDelim"), LAMBDA pl :
                 IF pl.panic THEN R(pl.t, NilNode)
                 ELSE R(pl.t, newElse(token.v.pos, token.v.line, pl.pipe,
                                      [trim EXCEPT !.right = pl.tok.trim.right]))))
        ELSE Bind(expect(pk.t, "itemRightDelim", "else"), LAMBDA token :
                 IF token.panic THEN R(token.t, NilNode)
                 ELSE R(token.t, newElse(token.v.pos, token.v.line, NilNode,
                                         [trim EXCEPT !.right = token.v.trim.right]))))

action(t, trim) ==
    Bind(nextNonSpace(t), LAMBDA k :
        CASE k.v.typ = "itemElse" -> elseControl(k.t, trim)
          [] k.v.typ = "itemEnd" -> endControl(k.t, trim)
          [] k.v.typ \in {"itemIf", "itemBranch"} -> branchControl(k.t, k.v.val, trim)
          [] OTHER ->
               Bind(peek(backup(k.t)), LAMBDA token :
               Bind(pipeline(token.t, "command", "itemRightDelim"), LAMBDA pl :
                   IF pl.panic THEN R(pl.t, NilNode)
                   ELSE R(pl.t, newAction(token.v.pos, token.v.line, pl.pipe,
                                          [trim EXCEPT !.right = pl.tok.trim.right])))))

\* decls that takes a second variable after a comma in every context.
declsAnyContext(t, pipe, context, from) ==
    Bind(peekNonSpace(t), LAMBDA v :
        IF v.v.typ # "itemVariable" THEN [t |-> v.t, pipe |-> pipe]
        ELSE IF consumed(t) <= from THEN [t |-> stall(v.t), pipe |-> pipe]
        ELSE
        Bind(peek(next(v.t).t), LAMBDA tokenAfterVariable :
        Bind(peekNonSpace(tokenAfterVariable.t), LAMBDA nxt :
        Bind([pipe EXCEPT !.Decl = Append(@, newVariable(v.v.pos, v.v.val))],
             LAMBDA declared :
            IF nxt.v.typ \in {"itemAssign", "itemDeclare"}
            THEN [t |-> nextNonSpace(nxt.t).t,
                  pipe |-> [declared EXCEPT !.IsAssign = (nxt.v.typ = "itemAssign")]]
            ELSE IF nxt.v.typ = "itemChar" /\ nxt.v.val = <<",">>
            THEN IF Len(declared.Decl) < 2
                 THEN Bind(peekNonSpace(nextNonSpace(nxt.t).t), LAMBDA pk :
                      IF pk.v.typ \in {"itemVariable", "itemRightDelim",
                                       "itemRightParen"}
                      THEN decls(pk.t, declared, context, consumed(t))
                      ELSE [t |-> errorf(pk.t, "range can only initialize variables",
                                         ""),
                            pipe |-> declared])
                 ELSE [t |-> errorf(nextNonSpace(nxt.t).t,
                                    "too many declarations in %s", context),
                       pipe |-> declared]
            ELSE IF tokenAfterVariable.v.typ = "itemSpace"
            THEN [t |-> backup3(nxt.t, v.v, tokenAfterVariable.v), pipe |-> pipe]
            ELSE [t |-> backup2(nxt.t, v.v), pipe |-> pipe]))))

\* The declarations of a pipeline (the label decls): [t, pipe]; from is the
\* count of tokens consumed when the turn before began.
decls(t, pipe, context, from) ==
    Bind(peekNonSpace(t), LAMBDA v :
        IF v.v.typ # "itemVariable" THEN [t |-> v.t, pipe |-> pipe]
        ELSE IF consumed(t) <= from THEN [t |-> stall(v.t), pipe |-> pipe]
        ELSE
        Bind(peek(next(v.t).t), LAMBDA tokenAfterVariable :
        Bind(peekNonSpace(tokenAfterVariable.t), LAMBDA nxt :
        Bind([pipe EXCEPT !.Decl = Append(@, newVariable(v.v.pos, v.v.val))],
             LAMBDA declared :
            IF nxt.v.typ \in {"itemAssign", "itemDeclare"}
            THEN [t |-> nextNonSpace(nxt.t).t,
                  pipe |-> [declared EXCEPT !.IsAssign = (nxt.v.typ = "itemAssign")]]
            ELSE IF nxt.v.typ = "itemChar" /\ nxt.v.val = <<",">>
            THEN IF context = "range" /\ Len(declared.Decl) < 2
                 THEN Bind(peekNonSpace(nextNonSpace(nxt.t).t), LAMBDA pk :
                      IF pk.v.typ \in {"itemVariable", "itemRightDelim",
                                       "itemRightParen"}
                      THEN decls(pk.t, declared, context, consumed(t))
                      ELSE [t |-> errorf(pk.t, "range can only initialize variables",
                                         ""),
                            pipe |-> declared])
                 ELSE [t |-> errorf(nextNonSpace(nxt.t).t,
                                    "too many declarations in %s", context),
                       pipe |-> declared]
            ELSE IF tokenAfterVariable.v.typ = "itemSpace"
            THEN [t |-> backup3(nxt.t, v.v, tokenAfterVariable.v), pipe |-> pipe]
            ELSE [t |-> backup2(nxt.t, v.v), pipe |-> pipe]))))

\* One turn of the command loop of pipeline: [t, pipe, tok, done, panic],
\* tok the token that ended it.
pipelineStep(st, context, end) ==
    Bind(nextNonSpace(st.t), LAMBDA token :
        IF token.v.typ = end
        THEN Bind(checkPipeline(token.t, st.pipe, context), LAMBDA t1 :
             [st EXCEPT !.t = t1, !.tok = token.v, !.done = TRUE,
                        !.panic = failed(t1)])
        ELSE IF token.v.typ \in OperandStart
        THEN Bind(command(backup(token.t)), LAMBDA c :
             IF c.panic
             THEN [st EXCEPT !.t = c.t, !.tok = token.v, !.done = TRUE,
                             !.panic = TRUE]
             ELSE [st EXCEPT !.t = c.t, !.pipe.Cmds = Append(@, c.v)])
        ELSE [st EXCEPT !.t = unexpected(token.t, token.v, context),
                        !.tok = token.v, !.done = TRUE, !.panic = TRUE])

pipelineLoop(st, context, end, from) ==
    IF st.done THEN st
    ELSE IF consumed(st.t) <= from
    THEN [st EXCEPT !.t = stall(@), !.done = TRUE, !.panic = TRUE]
    ELSE pipelineLoop(pipelineStep(st, context, end), context, end, consumed(st.t))

\* pipeline: [t, pipe, tok, panic].
pipeline(t, context, end) ==
    Bind(peekNonSpace(t), LAMBDA token :
    Bind(decls(token.t, newPipeline(token.v.pos, token.v.line), context,
               consumed(token.t) - 1), LAMBDA d :
        pipelineLoop([t |-> d.t, pipe |-> d.pipe, tok |-> token.v,
                      done |-> failed(d.t), panic |-> failed(d.t)],
                     context, end, consumed(d.t) - 1)))

\* The loop Elses as it would be if an else were appended to the body of
\* the branch like any other node.
ElsesInList(il, b, from) ==
    IF il.panic THEN R(il.t, NilNode)
    ELSE IF il.next.type # "nodeElse" THEN R(il.t, [b EXCEPT !.End = il.next])
    ELSE IF consumed(il.t) <= from THEN R(stall(il.t), NilNode)
    ELSE Bind(itemList(il.t), LAMBDA l2 :
         Elses(l2, [b EXCEPT !.List.Nodes =
                                Append(@, [il.next EXCEPT !.List = l2.list])],
               consumed(il.t)))

\* The loop labelled Elses of branchControl, entered with the list il just
\* parsed; from is the count of tokens consumed when the turn before began.
Elses(il, b, from) ==
    IF il.panic THEN R(il.t, NilNode)
    ELSE IF il.next.type # "nodeElse" THEN R(il.t, [b EXCEPT !.End = il.next])
    ELSE IF consumed(il.t) <= from THEN R(stall(il.t), NilNode)
    ELSE Bind(itemList(il.t), LAMBDA l2 :
         Elses(l2, [b EXCEPT !.Elses = Append(@, [il.next EXCEPT !.List = l2.list])],
               consumed(il.t)))

branchControl(t, keyword, trim) ==
    Bind(pipeline(t, keywordName(keyword), "itemRightDelim"), LAMBDA pl :
        IF pl.panic THEN R(pl.t, NilNode)
        ELSE Bind(itemList(pl.t), LAMBDA il :
             Elses(il, [newBranch(keyword, pl.pipe,
                                  [trim EXCEPT !.right = pl.tok.trim.right])
                          EXCEPT !.List = il.list], consumed(pl.t))))

\* commandStep without the break after a closing delimiter: the delimiter is
\* pushed back and the loop goes round again.
commandStepNoBreak(st) ==
    LET break(t1, cmd) ==
            IF Len(cmd.Args) = 0
            THEN [t |-> errorf(t1, "empty command", ""), v |-> NilNode,
                  done |-> TRUE, panic |-> TRUE]
            ELSE [t |-> t1, v |-> cmd, done |-> TRUE, panic |-> FALSE]
    IN  Bind(operand(peekNonSpace(st.t).t), LAMBDA op :
            IF op.panic
            THEN [t |-> op.t, v |-> NilNode, done |-> TRUE, panic |-> TRUE]
            ELSE
            Bind(IF isNil(op.v) THEN st.v ELSE [st.v EXCEPT !.Args = Append(@, op.v)],
                 LAMBDA cmd :
            Bind(next(op.t), LAMBDA token :
                IF token.v.typ = "itemSpace"
                THEN [t |-> token.t, v |-> cmd, done |-> FALSE, panic |-> FALSE]
                ELSE IF token.v.typ \in {"itemRightDelim", "itemRightParen"}
                THEN [t |-> backup(token.t), v |-> cmd, done |-> FALSE,
                      panic |-> FALSE]
                ELSE IF token.v.typ = "itemPipe" THEN break(token.t, cmd)
                ELSE [t |-> unexpected(token.t, token.v, "operand"), v |-> NilNode,
                      done |-> TRUE, panic |-> TRUE])))

\* One turn of the loop of command: [t, v, done, panic], v the command.
commandStep(st) ==
    LET break(t1, cmd) ==
            IF Len(cmd.Args) = 0
            THEN [t |-> errorf(t1, "empty command", ""), v |-> NilNode,
                  done |-> TRUE, panic |-> TRUE]
            ELSE [t |-> t1, v |-> cmd, done |-> TRUE, panic |-> FALSE]
    IN  Bind(operand(peekNonSpace(st.t).t), LAMBDA op :
            IF op.panic
            THEN [t |-> op.t, v |-> NilNode, done |-> TRUE, panic |-> TRUE]
            ELSE
            Bind(IF isNil(op.v) THEN st.v ELSE [st.v EXCEPT !.Args = Append(@, op.v)],
                 LAMBDA cmd :
            Bind(next(op.t), LAMBDA token :
                IF token.v.typ = "itemSpace"
                THEN [t |-> token.t, v |-> cmd, done |-> FALSE, panic |-> FALSE]
                ELSE IF token.v.typ \in {"itemRightDelim", "itemRightParen"}
                THEN break(backup(token.t), cmd)
                ELSE IF token.v.typ = "itemPipe" THEN break(token.t, cmd)
                ELSE [t |-> unexpected(token.t, token.v, "operand"), v |-> NilNode,
                      done |-> TRUE, panic |-> TRUE])))

commandLoop(st, from) ==
    IF st.done THEN st
    ELSE IF consumed(st.t) <= from
    THEN [st EXCEPT !.t = stall(@), !.done = TRUE, !.panic = TRUE]
    ELSE commandLoop(commandStep(st), consumed(st.t))

\* command: the tree and the command node, as the loop leaves them.
command(t) ==
    Bind(peekNonSpace(t), LAMBDA p :
        commandLoop([t |-> p.t, v |-> newCommand(p.v.pos), done |-> FALSE,
                     panic |-> FALSE], consumed(p.t) - 1))

\* for t.peek().typ == itemField { chain.Add(t.next().val) }
chainLoop(t, chain) ==
    Bind(peek(t), LAMBDA p :
        IF p.v.typ = "itemField"
        THEN Bind(next(p.t), LAMBDA n : chainLoop(n.t, Add(chain, n.v.val)))
        ELSE R(p.t, chain))

\* operand that keeps the chain node whatever the term is.
operandKeepChain(t) ==
    Bind(term(t), LAMBDA node :
        IF node.panic \/ isNil(node.v) THEN R(node.t, NilNode)
        ELSE Bind(peek(node.t), LAMBDA p :
            IF p.v.typ = "itemField"
            THEN Bind(chainLoop(p.t, newChain(p.v.pos, node.v)), LAMBDA chain :
                 CASE node.v.type \in NonExecutable ->
                        R(errorf(chain.t, "unexpected . after term %q", ""), NilNode)
                   [] OTHER -> chain)
            ELSE R(p.t, node.v)))

operand(t) ==
    Bind(term(t), LAMBDA node :
        IF node.panic \/ isNil(node.v) THEN R(node.t, NilNode)
        ELSE Bind(peek(node.t), LAMBDA p :
            IF p.v.typ = "itemField"
            THEN Bind(chainLoop(p.t, newChain(p.v.pos, node.v)), LAMBDA chain :
                 CASE node.v.type = "NodeField" ->
                        R(chain.t, newField(chain.v.pos,
                                            String(chain.v, chain.t.text)))
                   [] node.v.type = "NodeVariable" ->
                        R(chain.t, newVariable(chain.v.pos,
                                               String(chain.v, chain.t.text)))
                   [] node.v.type \in NonExecutable ->
                        R(errorf(chain.t, "unexpected . after term %q", ""), NilNode)
                   [] OTHER -> chain)
            ELSE R(p.t, node.v)))

term(t) ==
    Bind(nextNonSpace(t), LAMBDA token :
        CASE token.v.typ = "itemIdentifier" ->
               R(token.t, NewIdentifier(token.v.pos, token.v.val))
          [] token.v.typ = "itemDot" -> R(token.t, newDot(token.v.pos))
          [] token.v.typ = "itemNil" -> R(token.t, newNil(token.v.pos))
          [] token.v.typ = "itemVariable" ->
               R(token.t, newVariable(token.v.pos, token.v.val))
          [] token.v.typ = "itemField" ->
               R(token.t, newField(token.v.pos, token.v.val))
          [] token.v.typ = "itemBool" ->
               R(token.t, newBool(token.v.pos, token.v.val = <<"t", "r", "u", "e">>))
          [] token.v.typ = "itemNumber" ->
               IF numberSyntaxOK(token.v.val)
               THEN R(token.t, newNumber(token.v.pos, token.v.val))
               ELSE R(errorf(token.t, "illegal number syntax: %q", ""), NilNode)
          [] token.v.typ = "itemLeftParen" ->
               Bind(pipeline(token.t, "parenthesized pipeline", "itemRightParen"),
                    LAMBDA pl : IF pl.panic THEN R(pl.t, NilNode)
                                ELSE R(pl.t, pl.pipe))
          [] token.v.typ = "itemString" ->
               R(token.t, newString(token.v.pos, token.v.val))
          [] OTHER -> R(backup(token.t), NilNode))

\* One turn of the loop of parse.
\* parse's step with an else or end at top level kept in the root list.
parseStepKeep(t) ==
    Bind(peek(t), LAMBDA p :
    Bind(IF p.v.typ = "itemLeftDelim"
         THEN Bind(next(p.t), LAMBDA delim :
                   backup2(nextNonSpace(delim.t).t, delim.v))
         ELSE p.t, LAMBDA t1 :
    Bind(textOrAction(t1), LAMBDA n :
        IF n.panic THEN n.t
        ELSE [n.t EXCEPT !.Root.Nodes = Append(@, n.v)])))

parseStep(t) ==
    Bind(peek(t), LAMBDA p :
    Bind(IF p.v.typ = "itemLeftDelim"
         THEN Bind(next(p.t), LAMBDA delim :
                   backup2(nextNonSpace(delim.t).t, delim.v))
         ELSE p.t, LAMBDA t1 :
    Bind(textOrAction(t1), LAMBDA n :
        IF n.panic THEN n.t
        ELSE IF n.v.type \in {"nodeEnd", "nodeElse"}
        THEN errorf(n.t, "unexpected %s", n.v.type)
        ELSE [n.t EXCEPT !.Root.Nodes = Append(@, n.v)])))

RECURSIVE parseLoop(_, _)
\* for t.peek().typ != itemEOF: it runs to EOF or to the first error.
parseLoop(t, from) ==
    IF failed(t) THEN t
    ELSE IF peek(t).v.typ = "itemEOF" THEN peek(t).t
    ELSE IF consumed(t) <= from THEN stall(t)
    ELSE parseLoop(parseStep(t), consumed(t))

\* t.Root = t.newList(t.peek().pos)
parseBegin(t) == [peek(t).t EXCEPT !.Root = newList(peek(t).v.pos)]

parse(t) == parseLoop(parseBegin(t), consumed(parseBegin(t)) - 1)

\* Tree.Parse: the tree after parsing text; err is the recovered error.
Tree_Parse(t, text) == parse([t EXCEPT !.items = lex(text), !.text = text])

\* Parse(text): <<root, err>>, the root nil when there is an error.
Parse(text) ==
    LET t == Tree_Parse(newTree, text) IN
    IF failed(t) THEN [root |-> NilNode, err |-> t.err, tree |-> t]
    ELSE [root |-> t.Root, err |-> NoErr, tree |-> t]

\* tmplfmt.Format: <<out, err>>.
Format(text) ==
    LET p == Parse(text) IN
    IF p.err # NoErr THEN [out |-> << >>, err |-> p.err]
    ELSE [out |-> String(p.root, text), err |-> NoErr]

(***************************************************************************)
(* The round trip of FuzzParseString over one input text: Parse, String,   *)
(* Parse of the output, String again.  Format is the first two steps.      *)
(***************************************************************************)
VARIABLES text, pc, tree, out, tree2, out2

vars == <<text, pc, tree, out, tree2, out2>>

\* root, err := Parse(s)
ParseInput ==
    /\ pc = "start"
    /\ tree' = Tree_Parse(newTree, text)
    /\ pc' = "parsed"
    /\ UNCHANGED <<text, out, tree2, out2>>

\* out := root.String(), reached only when err == nil
StringRoot ==
    /\ pc = "parsed"
    /\ ~failed(tree)
    /\ out' = String(tree.Root, text)
    /\ pc' = "printed"
    /\ UNCHANGED <<text, tree, tree2, out2>>

\* root2, err := Parse(out)
ParseOutput ==
    /\ pc = "printed"
    /\ tree2' = Tree_Parse(newTree, out)
    /\ pc' = "reparsed"
    /\ UNCHANGED <<text, tree, out, out2>>

\* out2 := root2.String(), reached only when err == nil
StringRoot2 ==
    /\ pc = "reparsed"
    /\ ~failed(tree2)
    /\ out2' = String(tree2.Root, out)
    /\ pc' = "done"
    /\ UNCHANGED <<text, tree, out, tree2>>

Next == ParseInput \/ StringRoot \/ ParseOutput \/ StringRoot2

(***************************************************************************)
(* Input texts.  A text is written as a string and turned into the         *)
(* sequence of its characters; a document is a concatenation of chunks.    *)
(***************************************************************************)
Chars(s) == [i \in 1..Len(s) |-> SubSeq(s, i, i)]

RECURSIVE Flatten(_)
Flatten(chunks) ==
    IF chunks = << >> THEN << >> ELSE Head(chunks) \o Flatten(Tail(chunks))

\* The sequences of 0..n elements of alphabet.
Seqs(alphabet, n) == UNION {[1..k -> alphabet] : k \in 0..n}

\* The text of a sequence of chunks written as strings.
Doc(chunks) == Flatten([i \in DOMAIN chunks |-> Chars(chunks[i])])

\* The most chunks of a document of blocks, the most chunks of a document
\* of trim-marked actions, and the most pieces inside one action.
MaxChunks == 4

MaxTrimChunks == 3

MaxPieces == 3

\* Block structure on one line: text, an action, openers, else, else if,
\* end, an opener without its guard.
BlockChunks ==
    {"a", "{{.Z  |f 1}}", "{{$k}}", "{{if .X}}", "{{range $k,$v:=.M}}",
     "{{else}}", "{{else if .Y}}", "{{end}}", "{{if}}"}

\* The documents the specification spells out.
Examples ==
    {Chars("{{if .X}}a{{end}}"),
     Chars("{{range $k, $v := .M}}{{$k}}{{end}}"),
     Chars("{{if .X}}a{{else if .Y}}b{{else}}c{{end}}"),
     Chars("{{- if .X -}}")}

BlockDocs == {Doc(c) : c \in Seqs(BlockChunks, MaxChunks)} \cup Examples

\* Actions, openers, else, else if and end under every pair of trim markers.
TrimBodies == {".Z", "a\n b", "if .X", "else", "else if .Y", "end"}

TrimChunks ==
    {Chars(l) \o Chars(b) \o Chars(r) :
        l \in {"{{", "{{- "}, b \in TrimBodies, r \in {"}}", " -}}"}}

TrimDocs == {Flatten(c) : c \in Seqs(TrimChunks, MaxTrimChunks)}

\* One action laid out over lines: what precedes it, the left delimiter,
\* operands with the space before them, the right delimiter.
Openers == {"{{", " {{", "x{{", "\n{{", "{{- ", "\n\t{{"}

Closers == {"}}", " -}}", "\n}}"}

Pieces == {"a", " a", "\na", "\n b", " (a", ")", " | c", ".X", " $x", " :="}

ActionDocs ==
    {Chars(o) \o Doc(ps) \o Chars(c) :
        o \in Openers, c \in Closers, ps \in Seqs(Pieces, MaxPieces)}

\* One pipeline, token by token, in each place that holds a pipeline: an
\* action, a guard, an else-if guard, parentheses, after a declaration.
PipeContexts ==
    {<<"{{", "}}">>, <<"{{if ", "}}a{{end}}">>,
     <<"{{if .X}}a{{else if ", "}}{{end}}">>, <<"{{a (", ")}}">>,
     <<"{{range ", "}}{{end}}">>}

PipeTokens == {"a", " ", "|", ".X", "$x", ":=", "=", ",", ")", "1"}

PipeDocs ==
    {Chars(c[1]) \o Doc(ts) \o Chars(c[2]) :
        c \in PipeContexts, ts \in Seqs(PipeTokens, MaxPieces)}

\* Text before, between and after actions of one line and of several, with
\* and without trim markers and indentation.
TextChunks ==
    {"x", "\n\t", " y \n", "{{a}}", "{{a\n b}}", "{{- a\n b -}}",
     "{{if .X}}", "{{end}}"}

TextDocs == {Doc(c) : c \in Seqs(TextChunks, MaxTrimChunks)}

\* The most stages of a pipeline of stages.
MaxStages == 3

\* The first operand of a stage: callable ones and each kind of literal.
StageHeads == {"a", ".X", "$x", "1", ".", "nil", "true", "\"s\""}

StageContexts ==
    {<<"{{", "}}">>, <<"{{if ", "}}a{{end}}">>, <<"{{a (", ")}}">>}

\* One pipeline of 1..MaxStages complete stages, each of one operand.
StageDocs ==
    {Chars(c[1])
        \o Doc([i \in 1..(2 * Len(hs) - 1) |->
                   IF i % 2 = 1 THEN hs[(i + 1) \div 2] ELSE sep])
        \o Chars(c[2]) :
        c \in StageContexts, sep \in {"|", " | "},
        hs \in Seqs(StageHeads, MaxStages) \ {<< >>}}

\* The most field accesses after one term.
MaxFields == 2

\* Terms as the printer writes them: fields, variables, an identifier,
\* parenthesized pipelines, and each kind of literal.
FieldBases == {".A", ".A.B", "$x", "$"}

ChainBases == {"a", "(a)", "(.A | b)"}

LiteralBases == {"1", ".", "nil", "true", "\"s\""}

Accessors == {".X", ".Y"}

\* Where the operand stands: the text before and after it, its index among
\* the arguments of the first command, and the two texts as printed.
OperandContexts ==
    {<<"{{", "}}", 1, "{{ ", " }}">>,
     <<"{{a ", " b}}", 2, "{{ a ", " b }}">>,
     <<"{{if ", "}}a{{end}}", 1, "{{ if ", " }}a{{ end }}">>}

OperandDoc(c, base, fs) == Chars(c[1]) \o Chars(base) \o Doc(fs) \o Chars(c[2])

\* One operand: a term and 0..MaxFields field accesses.
OperandDocs ==
    {OperandDoc(c, base, fs) :
        c \in OperandContexts,
        base \in FieldBases \cup ChainBases \cup LiteralBases,
        fs \in Seqs(Accessors, MaxFields)}

\* The most chunks of a document of nested blocks.
MaxNestChunks == 6

\* Blocks within blocks: an opener, else, else if, end, and text.
NestChunks == {"a", "{{if .X}}", "{{else}}", "{{else if .Y}}", "{{end}}"}

NestDocs == {Doc(c) : c \in Seqs(NestChunks, MaxNestChunks)}

\* The most tokens of a pipeline of declarations.
MaxDeclTokens == 5

\* Variables, the comma, the declaration sign and a value.
DeclTokens == {"$x", "$y", ",", " := ", ".M"}

\* One pipeline of declarations in each place that holds a pipeline.
DeclDocs ==
    {Chars(c[1]) \o Doc(ts) \o Chars(c[2]) :
        c \in PipeContexts, ts \in Seqs(DeclTokens, MaxDeclTokens)}

InitOn(inputs) ==
    /\ text \in inputs
    /\ pc = "start"
    /\ tree = newTree
    /\ out = << >>
    /\ tree2 = newTree
    /\ out2 = << >>

InitBlocks == InitOn(BlockDocs)

InitTrim == InitOn(TrimDocs)

InitActions == InitOn(ActionDocs)

InitPipes == InitOn(PipeDocs)

InitText == InitOn(TextDocs)

InitStages == InitOn(StageDocs)

InitNest == InitOn(NestDocs)

InitDecls == InitOn(DeclDocs)

InitOperands == InitOn(OperandDocs)

SpecBlocks == InitBlocks /\ [][Next]_vars

SpecTrim == InitTrim /\ [][Next]_vars

SpecActions == InitActions /\ [][Next]_vars

SpecPipes == InitPipes /\ [][Next]_vars

SpecText == InitText /\ [][Next]_vars

SpecStages == InitStages /\ [][Next]_vars

SpecNest == InitNest /\ [][Next]_vars

SpecDecls == InitDecls /\ [][Next]_vars

SpecOperands == InitOperands /\ [][Next]_vars

(***************************************************************************)
(* Tree.parse one turn of its top-level loop at a time.                    *)
(***************************************************************************)
\* t.lex = lex(text); t.text = text; t.Root = t.newList(t.peek().pos)
ParseBegin ==
    /\ pc = "start"
    /\ tree' = parseBegin([newTree EXCEPT !.items = lex(text), !.text = text])
    /\ pc' = "parsing"
    /\ UNCHANGED <<text, out, tree2, out2>>

\* One turn of for t.peek().typ != itemEOF
ParseTurn ==
    /\ pc = "parsing"
    /\ ~failed(tree)
    /\ peek(tree).v.typ # "itemEOF"
    /\ tree' = parseStep(tree)
    /\ UNCHANGED <<text, pc, out, tree2, out2>>

\* The loop ends at the end of the input, or by a panic that Parse recovers.
ParseEnd ==
    /\ pc = "parsing"
    /\ failed(tree) \/ peek(tree).v.typ = "itemEOF"
    /\ tree' = IF failed(tree) THEN tree ELSE peek(tree).t
    /\ pc' = "parsed"
    /\ UNCHANGED <<text, out, tree2, out2>>

NextParse == ParseBegin \/ ParseTurn \/ ParseEnd

\* The states in which ParseBegin, and ParseTurn, can change the state.
BeginEnabled == pc = "start"

TurnEnabled ==
    /\ pc = "parsing"
    /\ ~failed(tree)
    /\ peek(tree).v.typ # "itemEOF"
    /\ parseStep(tree) # tree

\* Parsing is one sequential call: a step that can be taken is taken.  The
\* weak fairness of ParseBegin and of ParseTurn is written out,
\* WF_vars(A) being []<>~ENABLED <<A>>_vars \/ []<><<A>>_vars.
Fairness ==
    /\ []<>(~BeginEnabled) \/ []<><<ParseBegin>>_vars
    /\ []<>(~TurnEnabled) \/ []<><<ParseTurn>>_vars
    /\ WF_vars(ParseEnd)

SpecParse == InitBlocks /\ [][NextParse]_vars /\ Fairness

(***************************************************************************)
(* Token streams, read independently of the parser.                        *)
(***************************************************************************)
\* The tokens that are not runs of space inside an action.
NonSpace(items) == SelectSeq(items, LAMBDA it : it.typ # "itemSpace")

\* Kind and value of every non-space token, in order.
Tokens(items) ==
    LET ns == NonSpace(items) IN [i \in DOMAIN ns |-> <<ns[i].typ, ns[i].val>>]

\* The number of tokens of a kind.
CountTyp(items, typ) == Cardinality({i \in DOMAIN items : items[i].typ = typ})

\* The text tokens of a stream, in order.
TextVals(items) ==
    LET tx == SelectSeq(items, LAMBDA it : it.typ = "itemText")
    IN  [i \in DOMAIN tx |-> tx[i].val]

\* The kind of the token at i, "none" outside the stream.
TypAt(ns, i) == IF i \in 1..Len(ns) THEN ns[i].typ ELSE "none"

\* The places of the left delimiters among the non-space tokens ns, in order.
Actions(ns) ==
    SelectSeq([i \in 1..Len(ns) |-> i], LAMBDA i : ns[i].typ = "itemLeftDelim")

\* What the action whose left delimiter is ns[i] is, read from the keyword
\* that follows the delimiter.
KindAt(ns, i) ==
    CASE TypAt(ns, i + 1) \in {"itemIf", "itemBranch"} -> "open"
      [] TypAt(ns, i + 1) = "itemElse" ->
           IF TypAt(ns, i + 2) = "itemIf" THEN "else if" ELSE "else"
      [] TypAt(ns, i + 1) = "itemEnd" -> "end"
      [] OTHER -> "action"

\* The kinds of the actions of a token stream, in order.
Kinds(items) ==
    LET ns == NonSpace(items)
        a == Actions(ns)
    IN  [k \in 1..Len(a) |-> KindAt(ns, a[k])]

\* How many of the first n kinds are kind.
CountKind(kinds, kind, n) == Cardinality({j \in 1..n : kinds[j] = kind})

\* More blocks are opened in the token stream than are closed.
BlockLeftOpen(items) ==
    LET k == Kinds(items)
    IN  CountKind(k, "open", Len(k)) > CountKind(k, "end", Len(k))

\* The token the parser read last, and the non-space token in front of it
\* in the stream (none: the zero token).
PrevToken(t) ==
    LET before == {j \in 1..(t.lexPos - 2) :
                     j <= Len(t.items) /\ t.items[j].typ # "itemSpace"}
    IN  IF before = {} THEN zeroItem
        ELSE t.items[CHOOSE j \in before : \A k \in before : k <= j]

\* A token after which the commands of a pipeline start: a left delimiter,
\* a block keyword or the if of else if, a left paren, a declaration or
\* assignment sign.
StartsPipeline(it) ==
    it.typ \in {"itemLeftDelim", "itemIf", "itemBranch", "itemLeftParen",
               "itemDeclare", "itemAssign"}

\* The tokens that close a pipeline.
EndsPipeline == {"itemRightDelim", "itemRightParen"}

\* The token of kind typ is where a pipeline with no command shows: it
\* closes or pipes the pipeline right after its start, or closes it right
\* after the comma of a declaration list.
EmptyPipelineAt(prev, typ) ==
    \/ StartsPipeline(prev) /\ typ \in EndsPipeline \cup {"itemPipe"}
    \/ prev.typ = "itemChar" /\ prev.val = <<",">> /\ typ \in EndsPipeline

\* Somewhere in the token stream there is a pipeline with no command.
HasEmptyPipeline(items) ==
    LET ns == NonSpace(items)
    IN  \E i \in 1..(Len(ns) - 1) : EmptyPipelineAt(ns[i], ns[i + 1].typ)

\* The parser failed having just read the token that shows a pipeline with
\* no command.
StoppedAtEmptyPipeline(t) ==
    /\ failed(t) /\ t.peekCount = 0
    /\ EmptyPipelineAt(PrevToken(t), t.token[0].typ)

\* The place of the right delimiter that closes the action opened at ns[i]:
\* the first one after i, or 0 when the stream has none.
CloseAt(ns, i) ==
    LET c == {j \in (i + 1)..Len(ns) : ns[j].typ = "itemRightDelim"}
    IN  IF c = {} THEN 0 ELSE CHOOSE j \in c : \A k \in c : j <= k

\* The right trim flag of the action opened at ns[i].
RightTrimAt(ns, i) == CloseAt(ns, i) # 0 /\ ns[CloseAt(ns, i)].trim.right

\* Kind, left trim flag and right trim flag of every action of a token
\* stream, in order.
ActionTrims(items) ==
    LET ns == NonSpace(items)
        a == Actions(ns)
    IN  [k \in 1..Len(a) |->
           <<KindAt(ns, a[k]), ns[a[k]].trim.left, RightTrimAt(ns, a[k])>>]

(***************************************************************************)
(* C1  Idempotence: whenever Format succeeds on x, formatting its output   *)
(* again returns the same bytes: Parse(Parse(x).String()).String() equals  *)
(* Parse(x).String(), also when the action spans several lines or its left *)
(* delimiter is on an earlier line than its first token.                   *)
(***************************************************************************)
C1_FormatIdempotent == pc = "done" => out2 = out

(***************************************************************************)
(* C2  Whitespace only: whenever Format succeeds, the non-space tokens of  *)
(* the output are those of the input, in kind, value and order.            *)
(***************************************************************************)
C2_TokensPreserved ==
    pc = "reparsed" => Tokens(tree2.items) = Tokens(tree.items)

(***************************************************************************)
(* C3  Trim preservation: in a successfully formatted document every       *)
(* action, block opener, else (bare or else if) and end is emitted with a  *)
(* left trim marker exactly when its source left delimiter had one, and    *)
(* with a right trim marker exactly when its source right delimiter had    *)
(* one, on one line or over several; {{- if .X -}} stays {{- if .X -}}.    *)
(***************************************************************************)
C3_TrimPreserved ==
    /\ pc = "reparsed" => ActionTrims(tree2.items) = ActionTrims(tree.items)
    /\ (pc = "printed" /\ text = Chars("{{- if .X -}}{{end}}"))
         => out = Chars("{{- if .X -}}{{ end }}")

\* A formatted block whose opener, else and end carry different trim flags.
C3_TrimsMixed ==
    /\ pc = "reparsed"
    /\ ActionTrims(tree.items) =
         << <<"open", TRUE, FALSE>>, <<"else", FALSE, TRUE>>, <<"end", TRUE, TRUE>> >>

(***************************************************************************)
(* C4  Formatted output always re-parses: whenever Parse followed by       *)
(* String succeeds on an input, Parse of the output succeeds too.          *)
(***************************************************************************)
C4_OutputReparses == pc = "reparsed" => ~failed(tree2)

\* An action spread over several lines was rewritten and parsed again.
C4_RewrittenReparsed ==
    /\ pc = "reparsed" /\ ~failed(tree2)
    /\ out # text /\ Count(out, "\n") > 1
    /\ CountTyp(tree.items, "itemLeftParen") > 0

(***************************************************************************)
(* C5  All or nothing: Format returns either the serialization of the      *)
(* whole parsed document and no error, or the empty string and an error;   *)
(* a parse error raised at any depth leaves Root nil and no output.        *)
(***************************************************************************)
C5_AllOrNothing ==
    /\ (pc = "parsed" /\ failed(tree))
         => /\ isNil(tree.Root)
            /\ Format(text) = [out |-> << >>, err |-> tree.err]
    /\ pc = "printed"
         => /\ Format(text) = [out |-> out, err |-> NoErr]
            /\ TextVals(lex(out)) = TextVals(tree.items)
            /\ CountTyp(lex(out), "itemLeftDelim")
                 = CountTyp(tree.items, "itemLeftDelim")
            /\ CountTyp(lex(out), "itemRightDelim")
                 = CountTyp(tree.items, "itemRightDelim")

\* An error raised in the guard of a block nested in two open blocks, after
\* text and two complete guards were parsed.
C5_ErrorAtDepth ==
    /\ pc = "parsed" /\ failed(tree)
    /\ tree.err.msg = "missing value for %s"
    /\ CountTyp(tree.items, "itemIf") >= 3
    /\ TypAt(tree.items, 1) = "itemText"
    /\ tree.lexPos > 12

(***************************************************************************)
(* C6  Unterminated block: when the end of the input is reached while the  *)
(* body of a block opener or of an else is still open, at any depth,       *)
(* parsing fails with "unexpected EOF" and returns no tree; the error is   *)
(* raised only then.                                                       *)
(***************************************************************************)
C6_UnterminatedBlock ==
    pc = "parsed" =>
        /\ (tree.items[Len(tree.items)].typ = "itemEOF" /\ BlockLeftOpen(tree.items))
             => failed(tree) /\ isNil(tree.Root)
        /\ (tree.token[0].typ = "itemEOF" /\ BlockLeftOpen(tree.items))
             => tree.err.msg = "unexpected EOF"
        /\ tree.err.msg = "unexpected EOF"
             => tree.token[0].typ = "itemEOF" /\ BlockLeftOpen(tree.items)

\* The input ends in the body of the else of a block nested in another.
C6_EOFInNestedElse ==
    /\ pc = "parsed"
    /\ tree.err.msg = "unexpected EOF"
    /\ Kinds(tree.items) = <<"open", "open", "else">>

(***************************************************************************)
(* C7  Empty pipeline, as first stated: whenever the parser stops at a     *)
(* pipeline with no command, its first token being the closing token or a  *)
(* pipe (a bare action such as {{|}} or {{}}, a guard, a parenthesized     *)
(* pipeline, a declaration with nothing after it), the error is "missing   *)
(* value".                                                                 *)
(***************************************************************************)
C7_EmptyPipelineMissingValue ==
    (pc = "parsed" /\ StoppedAtEmptyPipeline(tree))
        => tree.err.msg = "missing value for %s"

(***************************************************************************)
(* C7  Empty pipeline, amended: every pipeline with no commands makes      *)
(* parsing fail.  When its closing delimiter or paren is reached with no   *)
(* command ({{}}, a block guard, an else if guard, ( ), nothing after :=   *)
(* or =) the error is "missing value", and only then; when a pipe comes    *)
(* first, as in {{|}}, the error is "unexpected ... in" the context.       *)
(***************************************************************************)
C7_EmptyPipelineFails ==
    pc = "parsed" =>
        /\ HasEmptyPipeline(tree.items) => failed(tree) /\ isNil(tree.Root)
        /\ (StoppedAtEmptyPipeline(tree) /\ tree.token[0].typ \in EndsPipeline)
             => tree.err.msg = "missing value for %s"
        /\ tree.err.msg = "missing value for %s"
             => StoppedAtEmptyPipeline(tree) /\ tree.token[0].typ \in EndsPipeline
        /\ (StoppedAtEmptyPipeline(tree) /\ tree.token[0].typ = "itemPipe")
             => tree.err.msg = "unexpected %s in %s"

\* The guard of an else if is empty.
C7_EmptyElseIfGuard ==
    /\ pc = "parsed"
    /\ tree.err.msg = "missing value for %s" /\ tree.err.arg = "else if"
    /\ PrevToken(tree).typ = "itemIf"

\* pieces[lo] .. pieces[hi] one after the other, halving the range.
RECURSIVE Join(_, _, _)
Join(pieces, lo, hi) ==
    IF lo > hi THEN << >>
    ELSE IF lo = hi THEN pieces[lo]
    ELSE Join(pieces, lo, (lo + hi) \div 2)
             \o Join(pieces, (lo + hi) \div 2 + 1, hi)

\* The token in front of items[i] that is not a space (none: the zero token).
PrevNonSpace(items, i) ==
    LET before == {j \in 1..(i - 1) : items[j].typ # "itemSpace"}
    IN  IF before = {} THEN zeroItem
        ELSE items[CHOOSE j \in before : \A k \in before : k <= j]

\* What the normal form puts in front of the token items[i] of an action:
\* nothing after a left delimiter (its space is part of the delimiter) or a
\* left paren, nothing before a right paren or a comma, nothing before a
\* field that continues the operand it touches, one space otherwise.
Separator(items, i) ==
    IF \/ PrevNonSpace(items, i).typ \in {"itemLeftDelim", "itemLeftParen"}
       \/ items[i].typ = "itemRightParen"
       \/ items[i].typ = "itemChar" /\ items[i].val = <<",">>
       \/ items[i].typ = "itemField" /\ items[i - 1].typ # "itemSpace"
    THEN << >> ELSE <<" ">>

\* The normal form of one token: text as it is, a left delimiter with one
\* space after it, a right delimiter with one space before it, any other
\* token of an action after its separator; spaces are dropped.
Piece(items, i) ==
    CASE items[i].typ \in {"itemSpace", "itemEOF", "itemError"} -> << >>
      [] items[i].typ = "itemText" -> items[i].val
      [] items[i].typ = "itemLeftDelim" ->
           IF items[i].trim.left THEN <<"{", "{", "-", " ">>
           ELSE <<"{", "{", " ">>
      [] items[i].typ = "itemRightDelim" ->
           IF items[i].trim.right THEN <<" ", "-", "}", "}">>
           ELSE <<" ", "}", "}">>
      [] OTHER -> Separator(items, i) \o items[i].val

\* The single-line normal form of a token stream.
Canon(items) == Join([i \in 1..Len(items) |-> Piece(items, i)], 1, Len(items))

\* Every action of the token stream closes on the line it opens on.
OneLineActions(items) ==
    \A j \in DOMAIN items :
        items[j].typ = "itemRightDelim"
            => \E i \in 1..(j - 1) :
                   /\ items[i].typ = "itemLeftDelim"
                   /\ items[i].line = items[j].line
                   /\ \A k \in (i + 1)..(j - 1) :
                          items[k].typ # "itemLeftDelim"

(***************************************************************************)
(* C8  Single-line normal form: when every action of the template lies on  *)
(* one line, the output is in normal form: one space after each left       *)
(* delimiter and before each right delimiter, operands one space apart,    *)
(* commands joined by " | ", declared variables by ", " and followed by    *)
(* " := " or " = ", and the text around the actions as it was.             *)
(* {{if .X}}a{{end}} gives {{ if .X }}a{{ end }} and                       *)
(* {{range $k, $v := .M}}{{$k}}{{end}} gives                               *)
(* {{ range $k, $v := .M }}{{ $k }}{{ end }}.                              *)
(***************************************************************************)
C8_SingleLineNormalForm ==
    /\ (pc = "reparsed" /\ OneLineActions(tree.items))
         => /\ out = Canon(tree2.items)
            /\ TextVals(tree2.items) = TextVals(tree.items)
    /\ (pc = "printed" /\ text = Chars("{{if .X}}a{{end}}"))
         => out = Chars("{{ if .X }}a{{ end }}")
    /\ (pc = "printed" /\ text = Chars("{{range $k, $v := .M}}{{$k}}{{end}}"))
         => out = Chars("{{ range $k, $v := .M }}{{ $k }}{{ end }}")

\* A template with two declared variables, a pipe of two commands and plain
\* text was rewritten.
C8_RewrittenDeclAndPipe ==
    /\ pc = "reparsed" /\ OneLineActions(tree.items) /\ out # text
    /\ CountTyp(tree.items, "itemDeclare") > 0
    /\ CountTyp(tree.items, "itemChar") > 0
    /\ CountTyp(tree.items, "itemPipe") > 0
    /\ CountTyp(tree.items, "itemText") > 0

\* The block structure of a tree, read in source order: "open" for a
\* Branch, then its list, then "else if" or "else" for each of its Elses
\* (with or without a guard) and that Else's list, then "end" for its End;
\* "action" for any other action, nothing for text.
RECURSIVE Shape(_)
Shape(n) ==
    CASE n.type = "nil" -> << >>
      [] n.type = "NodeText" -> << >>
      [] n.type = "NodeList" ->
           Join([i \in DOMAIN n.Nodes |-> Shape(n.Nodes[i])], 1, Len(n.Nodes))
      [] n.type = "NodeBranch" ->
           <<"open">> \o Shape(n.List)
               \o Join([i \in DOMAIN n.Elses |-> Shape(n.Elses[i])],
                       1, Len(n.Elses))
               \o (IF isNil(n.End) THEN << >> ELSE <<"end">>)
      [] n.type = "nodeElse" ->
           <<IF isNil(n.Pipe) THEN "else" ELSE "else if">> \o Shape(n.List)
      [] OTHER -> <<"action">>

\* The only node of the root list, nil when the list is not of length one.
OnlyNode(t) ==
    IF ~isNil(t.Root) /\ Len(t.Root.Nodes) = 1 THEN t.Root.Nodes[1]
    ELSE NilNode

(***************************************************************************)
(* C9  Else-if is not desugared: every else and else if of the source is   *)
(* an Else of the Branch it belongs to, in source order, with a guard      *)
(* exactly for else if, and the Branch is closed by one End; no nested     *)
(* Branch is made for else if.  The output has the same actions, else if   *)
(* inside one pair of delimiters.  {{if .X}}a{{else if .Y}}b{{else}}c{{end}}*)
(* is one Branch with two Elses, the first guarded, the second not, and    *)
(* prints as {{ if .X }}a{{ else if .Y }}b{{ else }}c{{ end }}.            *)
(***************************************************************************)
C9_ElseIfNotDesugared ==
    /\ (pc \in {"printed", "reparsed"})
         => Shape(tree.Root) = Kinds(tree.items)
    /\ pc = "reparsed"
         => /\ Kinds(tree2.items) = Kinds(tree.items)
            /\ Shape(tree2.Root) = Shape(tree.Root)
    /\ (pc = "printed"
          /\ text = Chars("{{if .X}}a{{else if .Y}}b{{else}}c{{end}}"))
         => /\ OnlyNode(tree).type = "NodeBranch"
            /\ Len(OnlyNode(tree).Elses) = 2
            /\ ~isNil(OnlyNode(tree).Elses[1].Pipe)
            /\ isNil(OnlyNode(tree).Elses[2].Pipe)
            /\ OnlyNode(tree).Elses[1].List.Nodes[1].Text = <<"b">>
            /\ OnlyNode(tree).Elses[2].List.Nodes[1].Text = <<"c">>
            /\ ~isNil(OnlyNode(tree).End)
            /\ out = Chars("{{ if .X }}a{{ else if .Y }}b{{ else }}c{{ end }}")

\* A block with an else if and an else was parsed, printed and parsed again.
C9_ElseIfThenElse ==
    /\ pc = "reparsed"
    /\ Kinds(tree.items) = <<"open", "else if", "else", "end">>
    /\ OnlyNode(tree).type = "NodeBranch"
    /\ Len(OnlyNode(tree).Elses) = 2
    /\ out # text

\* The k-th action is an else, else if or end that belongs to no block:
\* the blocks opened before it are all closed, none closed before it opened.
TopLevelCloserAt(kinds, k) ==
    /\ kinds[k] \in {"else", "else if", "end"}
    /\ CountKind(kinds, "open", k - 1) = CountKind(kinds, "end", k - 1)
    /\ \A j \in 1..(k - 1) :
           CountKind(kinds, "end", j) <= CountKind(kinds, "open", j)

(***************************************************************************)
(* C10  Unmatched else or end at top level: an else, else if or end with   *)
(* no open block, also after earlier blocks were closed, makes parsing     *)
(* fail and leaves no tree, so it is neither appended to the root list nor *)
(* dropped; the "unexpected else/end" error is given for such an action    *)
(* only.                                                                   *)
(***************************************************************************)
C10_UnmatchedCloserFails ==
    pc = "parsed" =>
        /\ (\E k \in DOMAIN Kinds(tree.items) :
                TopLevelCloserAt(Kinds(tree.items), k))
             => failed(tree) /\ isNil(tree.Root)
        /\ tree.err.msg = "unexpected %s"
             => /\ tree.err.arg \in {"nodeEnd", "nodeElse"}
                /\ \E k \in DOMAIN Kinds(tree.items) :
                       TopLevelCloserAt(Kinds(tree.items), k)

\* An else with no open block comes after a block that was closed.
C10_ElseAfterClosedBlock ==
    /\ pc = "parsed"
    /\ tree.err.msg = "unexpected %s" /\ tree.err.arg = "nodeElse"
    /\ Kinds(tree.items) = <<"open", "end", "else">>

(***************************************************************************)
(* C11: parsing ends.                                                      *)
(***************************************************************************)
\* C11: every parse reaches its end, with a tree or with an error; each turn
\* of the top-level loop takes at least one token unless it panics, and no
\* loop inside a turn (itemList, Elses, pipeline, command, decls) turns
\* without ending or taking a token; what the turns build is what
\* Tree.Parse returns.
C11_ParsingTerminates ==
    /\ <>(pc = "parsed")
    /\ [](tree.err.msg # NoProgress)
    /\ [](pc = "parsed" => tree = Tree_Parse(newTree, text))
    /\ [][(pc = "parsing" /\ pc' = "parsing")
            => failed(tree') \/ consumed(tree') > consumed(tree)]_vars

\* A parse that ends with a tree after every loop has gone round more than
\* once: two declarations, two commands, two operands, an else, two items.
C11_AllLoopsTurned ==
    /\ pc = "parsed" /\ ~failed(tree)
    /\ Kinds(tree.items) = <<"open", "action", "else", "end">>
    /\ CountTyp(tree.items, "itemChar") > 0
    /\ CountTyp(tree.items, "itemPipe") > 0
    /\ CountTyp(tree.items, "itemNumber") > 0

(***************************************************************************)
(* C12: the position an error carries.                                     *)
(***************************************************************************)
\* The token most recently read from the tokenizer, found in its stream.
LastRead(t) ==
    IF t.lexPos - 1 <= Len(t.items) THEN t.items[t.lexPos - 1]
    ELSE eofItem(t.text)

C13_TextVerbatim ==
    pc \in {"reparsed", "done"} => TextVals(tree2.items) = TextVals(tree.items)

\* Text with spaces and a newline written after an indented action of two
\* lines, the printer holding that action's prefix.
C13_TextAfterIndentedAction ==
    /\ pc = "reparsed"
    /\ text = Chars("\n\t{{a\n b}} y \n")
    /\ TextVals(tree.items) = <<Chars("\n\t"), Chars(" y \n")>>

(***************************************************************************)
(* C14: a literal at the head of a later stage of a pipeline.              *)
(***************************************************************************)
\* The kinds of token that lex a bool, number, string, nil or dot.
LiteralTyps ==
    {"itemBool", "itemCharConstant", "itemComplex", "itemNumber",
     "itemString", "itemRawString", "itemNil", "itemDot"}

\* The 1-based index of the first stage after the first that a literal
\* begins, 0 when there is none, read off the tokens ns of one pipeline:
\* stage k + 1 begins after the k-th pipe token.
FirstLiteralStage(ns) ==
    LET pipes == SelectSeq([i \in 1..Len(ns) |-> i],
                           LAMBDA i : ns[i].typ = "itemPipe")
        bad == {k \in 1..Len(pipes) : TypAt(ns, pipes[k] + 1) \in LiteralTyps}
    IN  IF bad = {} THEN 0
        ELSE 1 + CHOOSE k \in bad : \A j \in bad : k <= j

\* C14: a pipeline of complete commands C1|..|Cn fails to parse with "non
\* executable command" exactly when a command after the first begins with
\* a bool, number, string, nil or dot; the error names the 1-based index of
\* the first such stage; the first command may begin with any operand.
C14_NonExecutableStage ==
    pc = "parsed" =>
        /\ (tree.err.msg = "non executable command in pipeline stage %d")
             <=> FirstLiteralStage(NonSpace(tree.items)) # 0
        /\ FirstLiteralStage(NonSpace(tree.items)) # 0
             => tree.err.stage = FirstLiteralStage(NonSpace(tree.items))
        /\ FirstLiteralStage(NonSpace(tree.items)) = 0 => ~failed(tree)

\* A literal begins the first command, literals begin the second and the
\* third, and the error names the second.
C14_LiteralSecondAndThird ==
    /\ pc = "parsed"
    /\ text = Chars("{{if 1 | nil | .}}a{{end}}")
    /\ tree.err.stage = 2

(***************************************************************************)
(* C15: a term followed by field accesses.                                 *)
(***************************************************************************)
\* The k-th argument of the first command of the first node of the tree.
OperandAt(t, k) == t.Root.Nodes[1].Pipe.Cmds[1].Args[k]

\* The names accessed by fs, each without its period.
Names(fs) == [i \in DOMAIN fs |-> Tail(Chars(fs[i]))]

\* What the claim says of the operand base fs standing in context c.
OperandRule(c, base, fs) ==
    IF fs = << >> THEN
        ~failed(tree) /\ OperandAt(tree, c[3]).type # "NodeChain"
    ELSE IF base \in LiteralBases THEN
        \* the tokenizer takes 1.X for one malformed number
        /\ failed(tree) /\ isNil(tree.Root)
        /\ tree.err.msg = (IF base = "1" THEN "bad number syntax"
                           ELSE "unexpected . after term %q")
    ELSE
        /\ ~failed(tree)
        /\ String(OperandAt(tree, c[3]), text) = Chars(base) \o Doc(fs)
        /\ pc # "parsed" => out = Chars(c[4]) \o Chars(base) \o Doc(fs) \o Chars(c[5])
        /\ IF base \in FieldBases THEN
               /\ OperandAt(tree, c[3]).type
                    = (IF Head(Chars(base)) = "$" THEN "NodeVariable" ELSE "NodeField")
               /\ OperandAt(tree, c[3]).Ident
                    = (IF Head(Chars(base)) = "$" THEN Split(Chars(base), ".")
                       ELSE Split(Tail(Chars(base)), ".")) \o Names(fs)
           ELSE
               /\ OperandAt(tree, c[3]).type = "NodeChain"
               /\ OperandAt(tree, c[3]).Field = Names(fs)
               /\ OperandAt(tree, c[3]).Node.type
                    = (IF base = "a" THEN "NodeIdentifier" ELSE "NodePipe")
               /\ String(OperandAt(tree, c[3]).Node, text)
                    = (IF base = "a" THEN Chars(base)
                       ELSE SubSeq(Chars(base), 2, Len(base) - 1))

\* C15: field accesses after a field or a variable are added to that node's
\* identifiers, in order; after an identifier or a parenthesized pipeline
\* they make a chain node around it, in order; after a bool, string,
\* number, nil or dot parsing fails; a node that is made is written back as
\* the same base and the same field names in the same order.
C15_OperandCollapse ==
    pc # "start" =>
        \A c \in OperandContexts :
        \A base \in FieldBases \cup ChainBases \cup LiteralBases :
        \A fs \in Seqs(Accessors, MaxFields) :
            text = OperandDoc(c, base, fs) => OperandRule(c, base, fs)

\* Two fields accessed on a parenthesized pipeline that is the second
\* argument of a command, parsed and printed.
C15_ChainOnPipeline ==
    /\ pc = "printed"
    /\ text = Chars("{{a (.A | b).X.Y b}}")
    /\ OperandAt(tree, 2).type = "NodeChain"
    /\ OperandAt(tree, 2).Field = <<Chars("X"), Chars("Y")>>

(***************************************************************************)
(* C21: else and end are taken into the branch they belong to.             *)
(***************************************************************************)
\* No list under n holds an else or an end, every branch under n has an
\* end, and the Elses of a branch are else nodes.
RECURSIVE Absorbed(_)
Absorbed(n) ==
    CASE n.type = "NodeList" ->
           \A i \in DOMAIN n.Nodes :
               /\ n.Nodes[i].type \notin {"nodeElse", "nodeEnd"}
               /\ Absorbed(n.Nodes[i])
      [] n.type = "NodeBranch" ->
           /\ ~isNil(n.End) /\ n.End.type = "nodeEnd"
           /\ n.List.type = "NodeList" /\ Absorbed(n.List)
           /\ \A i \in DOMAIN n.Elses :
                  /\ n.Elses[i].type = "nodeElse"
                  /\ n.Elses[i].List.type = "NodeList"
                  /\ Absorbed(n.Elses[i].List)
      [] OTHER -> TRUE

\* The number of Elses of every branch under n, the branches in the order
\* in which they open.
RECURSIVE ElseCounts(_)
ElseCounts(n) ==
    CASE n.type = "NodeList" ->
           Join([i \in DOMAIN n.Nodes |-> ElseCounts(n.Nodes[i])],
                1, Len(n.Nodes))
      [] n.type = "NodeBranch" ->
           <<Len(n.Elses)>> \o ElseCounts(n.List)
               \o Join([i \in DOMAIN n.Elses |-> ElseCounts(n.Elses[i].List)],
                       1, Len(n.Elses))
      [] OTHER -> << >>

\* The k-th action is an else or else if read while the block opened by the
\* i-th action is the innermost one open: every block opened between the
\* two is closed before k, and block i is not.
ElseOfBlock(kinds, i, k) ==
    /\ i < k
    /\ kinds[i] = "open" /\ kinds[k] \in {"else", "else if"}
    /\ CountKind(kinds, "open", k - 1) - CountKind(kinds, "open", i)
         = CountKind(kinds, "end", k - 1) - CountKind(kinds, "end", i)
    /\ \A j \in (i + 1)..(k - 1) :
           CountKind(kinds, "end", j) - CountKind(kinds, "end", i)
             <= CountKind(kinds, "open", j) - CountKind(kinds, "open", i)

\* For every block of the token stream, in the order of the openers, the
\* number of else and else if actions it is the innermost open block of.
ElsesOfBlocks(kinds) ==
    LET opens == SelectSeq([i \in 1..Len(kinds) |-> i],
                           LAMBDA i : kinds[i] = "open")
    IN  [b \in DOMAIN opens |->
            Cardinality({k \in 1..Len(kinds) : ElseOfBlock(kinds, opens[b], k)})]

\* C21: in every successfully parsed tree no list (the root list, the body
\* of a branch, the body of an else) holds an else or an end, every branch
\* has an end, and every else is in the Elses of the innermost branch that
\* was open when it was read.
C21_ElseEndAbsorbed ==
    (pc = "parsed" /\ ~failed(tree)) =>
        /\ Absorbed(tree.Root)
        /\ ElseCounts(tree.Root) = ElsesOfBlocks(Kinds(tree.items))

\* A block with an else holds a block with an else if in its body; each
\* branch has the one else read while it was the innermost.
C21_ElseInsideNestedBlock ==
    /\ pc = "parsed" /\ ~failed(tree)
    /\ Kinds(tree.items) = <<"open", "open", "else if", "end", "else", "end">>
    /\ ElseCounts(tree.Root) = <<1, 1>>

(***************************************************************************)
(* C16: the lookahead that tells a declaration from an operand.            *)
(***************************************************************************)
\* The place that holds the pipeline of the document: the longest of the
\* contexts that the text begins with.
PipeContext ==
    LET begins(c) == /\ Len(c[1]) <= Len(text)
                     /\ SubSeq(text, 1, Len(c[1])) = Chars(c[1])
    IN  CHOOSE c \in PipeContexts :
            /\ begins(c)
            /\ \A d \in PipeContexts : begins(d) => Len(d[1]) <= Len(c[1])

\* The place of the first token of the pipeline among the tokens that are
\* not spaces: after {{, after {{ if, after {{ if .X }} a {{ else if,
\* after {{ a (, after {{ range.
PipeStart ==
    CASE PipeContext[1] = "{{" -> 2
      [] PipeContext[1] = "{{if .X}}a{{else if " -> 9
      [] PipeContext[1] = "{{a (" -> 4
      [] OTHER -> 3

\* The pipeline of the document in the tree.
FirstPipeline(t) ==
    CASE PipeContext[1] = "{{a (" -> t.Root.Nodes[1].Pipe.Cmds[1].Args[2]
      [] PipeContext[1] = "{{if .X}}a{{else if " -> t.Root.Nodes[1].Elses[1].Pipe
      [] OTHER -> t.Root.Nodes[1].Pipe

\* The pipeline begins with a variable; the token that follows it.
VariableFirst == TypAt(NonSpace(tree.items), PipeStart) = "itemVariable"

Continuation == TypAt(NonSpace(tree.items), PipeStart + 1)

CommaNext ==
    /\ Continuation = "itemChar"
    /\ NonSpace(tree.items)[PipeStart + 1].val = <<",">>

\* The same document with the command name a put before its pipeline, so
\* that the variable is read as an operand and never looked ahead from.
RefDoc ==
    Chars(PipeContext[1]) \o Chars("a ")
        \o SubSeq(text, Len(PipeContext[1]) + 1, Len(text))

RefParse == Parse(RefDoc)

RefOut == String(RefParse.root, RefDoc)

RemoveAt(seq, i) == SubSeq(seq, 1, i - 1) \o SubSeq(seq, i + 1, Len(seq))

\* A variable that begins a pipeline and is followed by neither := nor =
\* nor a comma is read as the first operand of the first command, as it
\* would be after a command name: the parse fails or succeeds alike, and
\* the output holds the same tokens in the same order.
ReadAsOperand ==
    /\ failed(tree) <=> RefParse.err # NoErr
    /\ ~failed(tree) =>
          /\ FirstPipeline(tree).Decl = << >>
          /\ FirstPipeline(tree).Cmds[1].Args[1].type = "NodeVariable"
          /\ FirstPipeline(tree).Cmds[1].Args[1].Ident[1]
               = NonSpace(tree.items)[PipeStart].val
    /\ pc \in {"printed", "reparsed", "done"} =>
          Tokens(lex(out)) = RemoveAt(Tokens(lex(RefOut)), PipeStart)

\* The variable is declared or assigned, IsAssign telling which.
Declared ==
    ~failed(tree) =>
        /\ Len(FirstPipeline(tree).Decl) >= 1
        /\ FirstPipeline(tree).Decl[1].Ident
             = <<NonSpace(tree.items)[PipeStart].val>>
        /\ CommaNext \/ (FirstPipeline(tree).IsAssign <=> Continuation = "itemAssign")

PeekCountInRange ==
    /\ tree.peekCount \in 0..3 /\ tree.peekHigh <= 3
    /\ tree2.peekCount \in 0..3 /\ tree2.peekHigh <= 3

\* C16 as stated: a variable that begins a pipeline is declared or
\* assigned exactly when the next token that is not a space is := or =
\* (IsAssign only for =); after any other continuation it is pushed back
\* with the tokens looked at and read again in order as the first operand;
\* peekCount stays within 0..3.
C16_DeclaredOnlyBeforeAssign ==
    /\ PeekCountInRange
    /\ (pc # "start" /\ VariableFirst) =>
          IF Continuation \in {"itemAssign", "itemDeclare"} THEN Declared
          ELSE ReadAsOperand

\* C16 as amended: the variable is declared or assigned exactly when the
\* next token that is not a space is := or = (IsAssign only for =) or is a
\* comma in the guard of a range; after any continuation other than := , =
\* and a comma it is pushed back with the tokens looked at and read again
\* in order as the first operand; peekCount stays within 0..3.
C16_DeclarationLookahead ==
    /\ PeekCountInRange
    /\ (pc # "start" /\ VariableFirst) =>
          IF Continuation \in {"itemAssign", "itemDeclare"} THEN Declared
          ELSE IF CommaNext
          THEN ~failed(tree) => PipeContext[1] = "{{range " /\ Declared
          ELSE ReadAsOperand

\* A variable, a space and an identifier: three tokens were pushed back and
\* the document was printed.
C16_ThreePushedBack ==
    /\ pc = "printed"
    /\ text = Chars("{{if $x a}}a{{end}}")
    /\ tree.peekHigh = 3
    /\ FirstPipeline(tree).Decl = << >>

(***************************************************************************)
(* C17: declarations separated by a comma.                                 *)
(***************************************************************************)
\* The token of the pipeline at offset k from its first, spaces apart.
PipeTyp(k) == TypAt(NonSpace(tree.items), PipeStart + k)

\* The pipeline begins with variable , variable , : a third declaration.
ThirdComma ==
    /\ VariableFirst /\ CommaNext
    /\ PipeTyp(2) = "itemVariable"
    /\ PipeTyp(3) = "itemChar"
    /\ NonSpace(tree.items)[PipeStart + 3].val = <<",">>

\* The pipeline is variable , variable := .M and nothing more.
TwoDeclared ==
    /\ VariableFirst /\ CommaNext
    /\ PipeTyp(2) = "itemVariable"
    /\ PipeTyp(3) = "itemDeclare"
    /\ PipeTyp(4) = "itemField"
    /\ PipeTyp(5) = "itemRightDelim"

\* C17: a variable followed by a comma is the first of two declared
\* variables only in the guard of a range; in an action, an if guard, an
\* else if guard or parentheses, and for a third variable in the guard of
\* a range, parsing fails with an error.
C17_CommaOnlyInRange ==
    (pc = "parsed" /\ VariableFirst /\ CommaNext) =>
        IF PipeContext[1] # "{{range " \/ ThirdComma
        THEN /\ failed(tree) /\ isNil(tree.Root)
             /\ tree.err.msg = "too many declarations in %s"
        ELSE /\ ~failed(tree) =>
                  /\ Len(FirstPipeline(tree).Decl) \in 1..2
                  /\ FirstPipeline(tree).Decl[1].Ident
                       = <<NonSpace(tree.items)[PipeStart].val>>
             /\ TwoDeclared =>
                  /\ ~failed(tree)
                  /\ Len(FirstPipeline(tree).Decl) = 2
                  /\ FirstPipeline(tree).Decl[2].Ident
                       = <<NonSpace(tree.items)[PipeStart + 2].val>>
                  /\ ~FirstPipeline(tree).IsAssign

\* Two variables are declared in the guard of a range.
C17_TwoDeclaredInRange ==
    /\ pc = "parsed" /\ ~failed(tree)
    /\ text = Chars("{{range $x,$y := .M}}{{end}}")
    /\ Len(FirstPipeline(tree).Decl) = 2

(***************************************************************************)
(* C18: the closing delimiter of an action printed over several lines.     *)
(***************************************************************************)
EndsWith(s, suffix) ==
    /\ Len(suffix) <= Len(s)
    /\ SubSeq(s, Len(s) - Len(suffix) + 1, Len(s)) = suffix

\* The last node of the tree, the action of a document that ends with one.
LastNode(t) == t.Root.Nodes[Len(t.Root.Nodes)]

\* A document that ends with an action has been printed.
ActionPrinted ==
    /\ pc = "printed"
    /\ Len(tree.Root.Nodes) > 0
    /\ LastNode(tree).type = "NodeAction"

\* The pipeline of the action is written with a newline in it.
PipelineSpansLines == Count(String(LastNode(tree).Pipe, text), "\n") > 0

\* What whitespacePrefix gives for the action: the prefix, and success.
Captured == whitespacePrefix(text, LastNode(tree), leftDelimText)

\* The closing delimiter stands on a line of its own after the prefix.
ClosedOnOwnLine ==
    EndsWith(out, <<"\n">> \o Captured[1]
                      \o rightDelimNoSpace(LastNode(tree).Trim))

\* The closing delimiter follows the last operand after one space.
ClosedOnLastLine ==
    /\ EndsWith(out, rightDelim(LastNode(tree).Trim))
    /\ out[Len(out) - Len(rightDelim(LastNode(tree).Trim))]
         \notin {" ", "\t", "\n"}

\* C18 as stated: every action whose pipeline is written with a newline in
\* it is closed by a newline, the captured prefix and the right delimiter
\* without its space; an action whose pipeline is written on one line is
\* closed by the right delimiter with its space.
C18_MultiLineClosedOnOwnLine ==
    ActionPrinted =>
        IF PipelineSpansLines THEN ClosedOnOwnLine ELSE ClosedOnLastLine

\* What ActionNode.writeTo does in place of C18: an action whose pipeline is
\* written with a newline in it and for which whitespacePrefix reports
\* success is closed by a newline, the captured prefix and the right
\* delimiter without its space; every other action is closed by the right
\* delimiter with its space.
C18_ClosedOnOwnLineWhenCaptured ==
    ActionPrinted =>
        IF PipelineSpansLines /\ Captured[2]
        THEN ClosedOnOwnLine ELSE ClosedOnLastLine

(***************************************************************************)
(* C19: the prefix captured for an action.                                 *)
(***************************************************************************)
\* The offset in the text of the left delimiter of its last action.
DelimPos ==
    LET d == SelectSeq(tree.items, LAMBDA it : it.typ = "itemLeftDelim")
    IN  d[Len(d)].pos

\* What stands between the beginning of the line of that delimiter and the
\* delimiter.
BeforeDelim ==
    Slice(text, LastIndex(Slice(text, 0, DelimPos), <<"\n">>) + 1, DelimPos)

PureIndent == \A i \in DOMAIN BeforeDelim : BeforeDelim[i] \in {" ", "\t"}

\* C19: whitespacePrefix succeeds for an action only when nothing but
\* whitespace stands between the beginning of the action's line and its
\* left delimiter, and then gives exactly that whitespace; when something
\* else stands there, on the first line as on a later one, it fails with
\* an empty prefix.
C19_PrefixCaptured ==
    ActionPrinted =>
        /\ Captured[2] => PureIndent /\ Captured[1] = BeforeDelim
        /\ ~PureIndent => Captured = << << >>, FALSE >>

(***************************************************************************)
(* C20: the lines on which a command is continued.                         *)
(***************************************************************************)
\* The place in the output of the first newline after the left delimiter
\* of the action; the text in front of the action is written as it is.
FirstBreak ==
    CHOOSE k \in (DelimPos + 1)..Len(out) :
        /\ out[k] = "\n"
        /\ \A j \in (DelimPos + 1)..(k - 1) : out[j] # "\n"

\* C20: an operand that starts on a later line than the operand before it
\* is written after a newline and the prefix of the action that holds the
\* command, the whitespace in front of that action's own left delimiter.
C20_ContinuationAtPrefix ==
    (ActionPrinted /\ PipelineSpansLines /\ PureIndent) =>
        /\ FirstBreak + Len(BeforeDelim) <= Len(out)
        /\ SubSeq(out, FirstBreak + 1, FirstBreak + Len(BeforeDelim))
             = BeforeDelim

=============================================================================
